---- MODULE Spec2Model ----
(***************************************************************************)
(* Channel Relationship Analysis Engine (analysis_engine.py).              *)
(*                                                                         *)
(* Scores (similarities, strengths, correlations) are Python floats in     *)
(* [0,1]; here they are integers on the grid 0..Scale, so 0.85 is          *)
(* 85 * Scale \div 100.  Timestamps are integer minutes.                   *)
(*                                                                         *)
(* A text is the sequence of its whitespace-separated tokens; <<>> is the  *)
(* empty string.  A Python dict is a function whose DOMAIN is its key set. *)
(* A call that can raise returns [raised |-> BOOLEAN, value |-> ...].      *)
(***************************************************************************)
EXTENDS Integers, Sequences, FiniteSets, TLC

VARIABLES
    pc,                 \* position of the call under analysis
    call,               \* function-level specifications: the arguments
    ret,                \* function-level specifications: the returned value
    channel_id,         \* analyze: argument
    related_channels,   \* analyze: argument
    posts,              \* analyze: argument
    task,               \* analyze: the three branch tasks
    analysis_results,   \* analyze: the report being assembled
    tfidf_vectorizer    \* ContentAnalyzer.tfidf_vectorizer, one per engine

vars == <<pc, call, ret, channel_id, related_channels, posts, task, analysis_results,
          tfidf_vectorizer>>

orchVars == <<channel_id, related_channels, posts, task, analysis_results, tfidf_vectorizer>>

(***************************************************************************)
(* Generic helpers                                                         *)
(***************************************************************************)
Scale == 60 * 100

Range(s) == {s[i] : i \in 1..Len(s)}

Min(a, b) == IF a <= b THEN a ELSE b

Abs(a) == IF a < 0 THEN -a ELSE a

\* dict.get(key, default)
Get(d, k, default) == IF k \in DOMAIN d THEN d[k] ELSE default

\* the empty dict {}
EmptyDict == [k \in {} |-> 0]

SeqsUpTo(S, n) == UNION {[1..k -> S] : k \in 0..n}

RECURSIVE SelectSeqBy(_, _)
SelectSeqBy(s, keep) ==
    IF s = <<>> THEN <<>>
    ELSE IF Head(s) \in keep THEN <<Head(s)>> \o SelectSeqBy(Tail(s), keep)
    ELSE SelectSeqBy(Tail(s), keep)

\* Python's None, for ids and timestamps (falsy, like 0)
None == 0

\* the function-level specifications leave analyze idle, and conversely
NoCall == [fn |-> "none"]

NoTasks == [b \in {} |-> 0]

\* TfidfVectorizer before its first fit: no vocabulary_ attribute
NotFitted == [fitted |-> FALSE, vocabulary_ |-> <<>>]

OrchIdle ==
    /\ channel_id = None
    /\ related_channels = <<>>
    /\ posts = <<>>
    /\ task = NoTasks
    /\ analysis_results = EmptyDict
    /\ tfidf_vectorizer = NotFitted

(***************************************************************************)
(* Texts                                                                   *)
(***************************************************************************)
Words == {"alpha", "beta"}

UpperWords == {"ALPHA"}

UrlTokens == {"http://x.io"}

MentionTokens == {"@user"}

HashtagTokens == {"#tag"}

PunctTokens == {"!!!"}

\* a text that is not a str (re.sub raises TypeError on it)
NonStr == "<non-str>"

Tokens == Words \cup UpperWords \cup UrlTokens \cup MentionTokens
              \cup HashtagTokens \cup PunctTokens

MaxTextLen == 2

Texts == SeqsUpTo(Tokens, MaxTextLen)

PlainTexts == SeqsUpTo(Words \cup PunctTokens, MaxTextLen)

IsStr(text) == NonStr \notin Range(text)

Lower(tok) == IF tok = "ALPHA" THEN "alpha" ELSE tok

\* ContentAnalyzer._clean_text: the words left, in order
_clean_text(text) ==
    LET noUrl     == SelectSeqBy(text, Tokens \ UrlTokens)
        noMention == SelectSeqBy(noUrl, Tokens \ MentionTokens)
        noHashtag == SelectSeqBy(noMention, Tokens \ HashtagTokens)
        noPunct   == SelectSeqBy(noHashtag, Tokens \ PunctTokens)
    IN [i \in 1..Len(noPunct) |-> Lower(noPunct[i])]

(***************************************************************************)
(* ContentAnalyzer: similarity                                             *)
(***************************************************************************)
\* TfidfVectorizer(min_df=2, max_df=0.95)
TfidfMinDf == 2

TfidfMaxDfPercent == 95

\* CountVectorizer.fit_transform raises ValueError when max_df * n_doc < min_df
\* ("max_df corresponds to < documents than min_df"), or when no term is left
TfidfPrunable(n_doc) == TfidfMaxDfPercent * n_doc < TfidfMinDf * 100

\* unigrams and bigrams of a cleaned document (ngram_range=(1, 2))
Terms(doc) ==
    {<<doc[i]>> : i \in 1..Len(doc)}
        \cup {<<doc[i], doc[i + 1]>> : i \in 1..(Len(doc) - 1)}

DocFreq(term, docs) == Cardinality({i \in 1..Len(docs) : term \in Terms(docs[i])})

\* the vocabulary that survives min_df / max_df pruning
Vocabulary(docs) ==
    {t \in UNION {Terms(docs[i]) : i \in 1..Len(docs)} :
        /\ DocFreq(t, docs) >= TfidfMinDf
        /\ DocFreq(t, docs) * 100 <= TfidfMaxDfPercent * Len(docs)}

\* fit_transform raises ValueError
TfidfFitFails(docs) == TfidfPrunable(Len(docs)) \/ Vocabulary(docs) = {}

\* ContentAnalyzer._calculate_tfidf_similarity: the fit on the two documents
\* raises ValueError, which is caught and turned to 0.0
_calculate_tfidf_similarity(text1, text2) ==
    IF TfidfFitFails(<<text1, text2>>) THEN 0
    ELSE IF text1 = text2 THEN Scale ELSE 0

\* ContentAnalyzer._calculate_semantic_similarity; the embedding model is an
\* optional collaborator: sem.available says whether it was loaded, sem.cosine
\* is the cosine it yields for two different texts
_calculate_semantic_similarity(text1, text2, sem) ==
    IF ~sem.available THEN 0
    ELSE IF text1 = text2 THEN Scale
    ELSE sem.cosine

\* the share of the first text's words that the second text has
LexicalContainment(text1, text2) ==
    LET words1 == Range(text1)
        words2 == Range(text2)
    IN IF words1 = {} \/ words2 = {} THEN 0
       ELSE (Scale * Cardinality(words1 \cap words2)) \div Cardinality(words1)

\* ContentAnalyzer._calculate_lexical_similarity
_calculate_lexical_similarity(text1, text2) ==
    LET words1 == Range(text1)
        words2 == Range(text2)
        intersection == Cardinality(words1 \cap words2)
        union == Cardinality(words1 \cup words2)
    IN IF words1 = {} \/ words2 = {} THEN 0
       ELSE IF union > 0 THEN (Scale * intersection) \div union ELSE 0

ZeroSimilarity == [tfidf |-> 0, semantic |-> 0, lexical |-> 0, overall |-> 0]

\* ContentAnalyzer.calculate_text_similarity
calculate_text_similarity(text1, text2, sem) ==
    IF text1 = <<>> \/ text2 = <<>> THEN [raised |-> FALSE, value |-> ZeroSimilarity]
    ELSE IF ~IsStr(text1) \/ ~IsStr(text2) THEN [raised |-> TRUE, value |-> ZeroSimilarity]
    ELSE
        LET text1_clean == _clean_text(text1)
            text2_clean == _clean_text(text2)
            tfidf_sim == _calculate_tfidf_similarity(text1_clean, text2_clean)
            semantic_sim == _calculate_semantic_similarity(text1_clean, text2_clean, sem)
            lexical_sim == _calculate_lexical_similarity(text1_clean, text2_clean)
            overall_sim == (4 * tfidf_sim + 4 * semantic_sim + 2 * lexical_sim) \div 10
        IN [raised |-> FALSE,
            value |-> [tfidf |-> tfidf_sim, semantic |-> semantic_sim,
                       lexical |-> lexical_sim, overall |-> overall_sim]]

\* the states of the optional embedding model
SemanticModels ==
    {[available |-> FALSE, cosine |-> 0]}
        \cup {[available |-> TRUE, cosine |-> c] : c \in {0, (9 * Scale) \div 10}}

(***************************************************************************)
(* ContentAnalyzer: duplicates and topics                                  *)
(***************************************************************************)
\* AnalysisConfig.duplicate_threshold = 0.85
DuplicateThreshold == (85 * Scale) \div 100

\* AnalysisConfig(): the fields the analyzers read, with their defaults
DefaultConfig == [duplicate_threshold |-> DuplicateThreshold]

\* a classification whose comparisons are not strict
ClassifyNonStrict(similarity) ==
    IF similarity.overall >= (95 * Scale) \div 100 THEN "exact"
    ELSE IF similarity.semantic >= (8 * Scale) \div 10 THEN "semantic"
    ELSE IF similarity.tfidf >= (8 * Scale) \div 10 THEN "textual"
    ELSE "partial"

\* ContentAnalyzer._classify_duplicate_type
_classify_duplicate_type(similarity) ==
    IF similarity.overall > (95 * Scale) \div 100 THEN "exact"
    ELSE IF similarity.semantic > (8 * Scale) \div 10 THEN "semantic"
    ELSE IF similarity.tfidf > (8 * Scale) \div 10 THEN "textual"
    ELSE "partial"

\* ContentAnalyzer._calculate_time_diff (0.0 when a timestamp is missing)
ContentTimeDiff(date1, date2) ==
    IF date1 = None \/ date2 = None THEN 0
    ELSE IF date1 < date2 THEN date2 - date1 ELSE date1 - date2

\* all ordered pairs, a post with itself included
AllOrderedPairs(i, j, n) ==
    [k \in 1..(n * n) |-> <<((k - 1) \div n) + 1, ((k - 1) % n) + 1>>]

\* the index pairs i < j in loop order
RECURSIVE PairsFrom(_, _, _)
PairsFrom(i, j, n) ==
    IF i >= n THEN <<>>
    ELSE IF j > n THEN PairsFrom(i + 1, i + 2, n)
    ELSE <<<<i, j>>>> \o PairsFrom(i, j + 1, n)

RECURSIVE DuplicatesLoop(_, _, _, _, _)
DuplicatesLoop(ps, pairs, sem, config, duplicates) ==
    IF pairs = <<>> THEN [raised |-> FALSE, value |-> duplicates]
    ELSE LET post1 == ps[Head(pairs)[1]]
             post2 == ps[Head(pairs)[2]]
             similarity == calculate_text_similarity(post1.text, post2.text, sem)
             isDup == similarity.value.overall > config.duplicate_threshold
         IN IF similarity.raised
               \/ (isDup /\ post1.published_at # None /\ post2.published_at # None
                         /\ -1 \in {post1.published_at, post2.published_at})
            THEN [raised |-> TRUE, value |-> <<>>]
            ELSE DuplicatesLoop(ps, Tail(pairs), sem, config,
                    IF isDup
                    THEN Append(duplicates,
                            [post1_id |-> post1.id, post2_id |-> post2.id,
                             similarity_metrics |-> similarity.value,
                             time_diff_minutes |->
                                ContentTimeDiff(post1.published_at, post2.published_at),
                             duplicate_type |-> _classify_duplicate_type(similarity.value)])
                    ELSE duplicates)

\* ContentAnalyzer.detect_duplicates
detect_duplicates(ps, sem, config) ==
    DuplicatesLoop(ps, PairsFrom(1, 2, Len(ps)), sem, config, <<>>)

EmptyTopics == [topics |-> <<>>, topic_distribution |-> <<>>]

\* the default of n_topics
DefaultNTopics == 10

\* a topic extraction that fits whatever number of texts it is given
TopicsWithoutLengthGuard(texts, n_topics) ==
    LET kept == SelectSeq(texts, LAMBDA t : t # <<>>)
        clean_texts == [i \in 1..Len(kept) |-> _clean_text(kept[i])]
    IN IF \E i \in 1..Len(kept) : ~IsStr(kept[i]) THEN EmptyTopics
       ELSE IF TfidfFitFails(clean_texts) THEN EmptyTopics
       ELSE [topics |-> [k \in 1..n_topics |-> [id |-> k - 1]],
             topic_distribution |-> [d \in 1..Len(clean_texts) |-> n_topics]]

\* ContentAnalyzer.extract_topics; a topic is kept as its id, a row of the
\* distribution as its length (one weight per topic).  Every exception (a text
\* that is not a str, a fit that prunes every term) is caught inside.
extract_topics(texts, n_topics) ==
    LET kept == SelectSeq(texts, LAMBDA t : t # <<>>)
        clean_texts == [i \in 1..Len(kept) |-> _clean_text(kept[i])]
    IN IF \E i \in 1..Len(kept) : ~IsStr(kept[i]) THEN EmptyTopics
       ELSE IF Len(clean_texts) < n_topics THEN EmptyTopics
       ELSE IF TfidfFitFails(clean_texts) THEN EmptyTopics
       ELSE [topics |-> [k \in 1..n_topics |-> [id |-> k - 1]],
             topic_distribution |-> [d \in 1..Len(clean_texts) |-> n_topics]]

\* every term the vectorizer can see, in the order of sorted(vocabulary)
TermOrder ==
    << <<"alpha">>, <<"alpha", "alpha">>, <<"alpha", "beta">>,
       <<"beta">>, <<"beta", "alpha">>, <<"beta", "beta">> >>

\* the feature names of a fitted vocabulary, in column order
FeatureNames(vocabulary) == SelectSeq(TermOrder, LAMBDA t : t \in vocabulary)

\* extract_topics up to and including fit_transform: either the early result,
\* or the fitted vocabulary and the shape of tfidf_matrix
TopicsFit(texts, n_topics) ==
    LET kept == SelectSeq(texts, LAMBDA t : t # <<>>)
        clean_texts == [i \in 1..Len(kept) |-> _clean_text(kept[i])]
    IN IF \/ \E i \in 1..Len(kept) : ~IsStr(kept[i])
          \/ Len(clean_texts) < n_topics
          \/ TfidfFitFails(clean_texts)
       THEN [done |-> TRUE, value |-> EmptyTopics]
       ELSE [done |-> FALSE,
             vocabulary_ |-> FeatureNames(Vocabulary(clean_texts)),
             n_docs |-> Len(clean_texts),
             n_features |-> Cardinality(Vocabulary(clean_texts))]

\* self.tfidf_vectorizer after extract_topics: a fit_transform that succeeds
\* stores the fitted vocabulary, one that is not reached or raises leaves the
\* vectorizer as it was
VectorizerAfterTopics(vectorizer, texts, n_topics) ==
    LET fit == TopicsFit(texts, n_topics)
    IN IF fit.done THEN vectorizer
       ELSE [fitted |-> TRUE, vocabulary_ |-> fit.vocabulary_]

(***************************************************************************)
(* NetworkAnalyzer: the channel graph (networkx.Graph)                     *)
(*                                                                         *)
(* nodes: the nodes in insertion order; adj[n]: n's neighbours in          *)
(* insertion order; attr[{u, v}]: the attribute dict of the edge u - v.    *)
(***************************************************************************)
EmptyGraph == [nodes |-> <<>>, adj |-> EmptyDict, attr |-> EmptyDict]

HasNode(graph, n) == n \in Range(graph.nodes)

HasEdge(graph, u, v) == {u, v} \in DOMAIN graph.attr

AppendNew(s, x) == IF x \in Range(s) THEN s ELSE Append(s, x)

\* dict.update: the keys of new override those of old
Update(old, new) ==
    [k \in DOMAIN old \cup DOMAIN new |-> IF k \in DOMAIN new THEN new[k] ELSE old[k]]

\* Graph.add_edge(u, v, **attrs)
add_edge(graph, u, v, attrs) ==
    LET nodes1 == AppendNew(AppendNew(graph.nodes, u), v)
        adjOf(n) == IF n \in DOMAIN graph.adj THEN graph.adj[n] ELSE <<>>
        old == IF HasEdge(graph, u, v) THEN graph.attr[{u, v}] ELSE EmptyDict
    IN [nodes |-> nodes1,
        adj |-> [n \in Range(nodes1) |->
                    IF n = u THEN AppendNew(adjOf(n), v)
                    ELSE IF n = v THEN AppendNew(adjOf(n), u)
                    ELSE adjOf(n)],
        attr |-> [e \in DOMAIN graph.attr \cup {{u, v}} |->
                    IF e = {u, v} THEN Update(old, attrs) ELSE graph.attr[e]]]

number_of_nodes(graph) == Len(graph.nodes)

number_of_edges(graph) == Cardinality(DOMAIN graph.attr)

\* the keyword arguments build_channel_network passes by name to add_edge
ExplicitEdgeKeywords == {"weight", "connection_type"}

\* one iteration of the loop of build_channel_network; the call
\* G.add_edge(source_id, target_id, weight=..., connection_type=..., **conn)
\* raises TypeError (multiple values for a keyword argument) when conn itself
\* has a key 'weight' or 'connection_type'
AddConnection(graph, conn) ==
    LET source_id == Get(conn, "source_id", None)
        target_id == Get(conn, "target_id", None)
        strength == Get(conn, "strength", 0)
        connection_type == Get(conn, "connection_type", "unknown")
    IN IF source_id # None /\ target_id # None
       THEN IF DOMAIN conn \cap ExplicitEdgeKeywords # {}
            THEN [raised |-> TRUE, value |-> graph]
            ELSE [raised |-> FALSE,
                  value |-> add_edge(graph, source_id, target_id,
                                Update([weight |-> strength,
                                        connection_type |-> connection_type], conn))]
       ELSE [raised |-> FALSE, value |-> graph]

RECURSIVE BuildFrom(_, _)
BuildFrom(graph, connections) ==
    IF connections = <<>> THEN [raised |-> FALSE, value |-> graph]
    ELSE LET step == AddConnection(graph, Head(connections))
         IN IF step.raised THEN step ELSE BuildFrom(step.value, Tail(connections))

\* NetworkAnalyzer.build_channel_network
build_channel_network(connections) == BuildFrom(EmptyGraph, connections)

\* edge_data.get('weight', 0.0): edge attribute 'weight', 0.0 when absent
EdgeWeight(graph, u, v) == Get(graph.attr[{u, v}], "weight", 0)

neighbors(graph, n) == graph.adj[n]

\* Graph.degree(n): a self-loop counts twice
degree(graph, n) ==
    Len(graph.adj[n]) + (IF n \in Range(graph.adj[n]) THEN 1 ELSE 0)

\* the sum Graph.degree takes over the edges of n: an edge without the
\* attribute 'weight' counts 1, a self-loop counts twice
RECURSIVE SumWeights(_, _, _)
SumWeights(graph, n, nbrs) ==
    IF nbrs = <<>> THEN 0
    ELSE Get(graph.attr[{n, Head(nbrs)}], "weight", Scale)
                * (IF Head(nbrs) = n THEN 2 ELSE 1)
            + SumWeights(graph, n, Tail(nbrs))

\* Graph.degree(n, weight='weight')
weighted_degree(graph, n) == SumWeights(graph, n, graph.adj[n])

\* nx.density
density(nodeSet, edgeSet) ==
    LET n == Cardinality(nodeSet)
        m == Cardinality(edgeSet)
    IN IF m = 0 \/ n <= 1 THEN 0 ELSE (Scale * 2 * m) \div (n * (n - 1))

\* the edges of graph.subgraph(nodeSet)
SubgraphEdges(graph, nodeSet) == {e \in DOMAIN graph.attr : e \subseteq nodeSet}

\* nx.is_connected; raises NetworkXPointlessConcept on the null graph
RECURSIVE Reach(_, _)
Reach(graph, seen) ==
    LET more == {n \in Range(graph.nodes) : \E m \in seen : HasEdge(graph, m, n)}
    IN IF more \subseteq seen THEN seen ELSE Reach(graph, seen \cup more)

is_connected(graph) ==
    IF graph.nodes = <<>> THEN [raised |-> TRUE, value |-> FALSE]
    ELSE [raised |-> FALSE,
          value |-> Reach(graph, {graph.nodes[1]}) = Range(graph.nodes)]

(***************************************************************************)
(* NetworkAnalyzer: metrics of one channel                                 *)
(***************************************************************************)
\* NetworkAnalyzer._empty_metrics
_empty_metrics ==
    [degree |-> 0, weighted_degree |-> 0, degree_centrality |-> 0,
     betweenness_centrality |-> 0, closeness_centrality |-> 0,
     eigenvector_centrality |-> 0, pagerank |-> 0, clustering_coefficient |-> 0,
     neighbors_count |-> 0, neighbors |-> <<>>, connection_types |-> EmptyDict,
     strong_connections |-> 0, total_connections |-> 0]

RECURSIVE CountTypes(_, _, _)
CountTypes(graph, n, nbrs) ==
    IF nbrs = <<>> THEN EmptyDict
    ELSE LET rest == CountTypes(graph, n, SubSeq(nbrs, 1, Len(nbrs) - 1))
             connection_type == Get(graph.attr[{n, nbrs[Len(nbrs)]}], "connection_type", "unknown")
         IN Update(rest, [k \in {connection_type} |-> Get(rest, connection_type, 0) + 1])

\* NetworkAnalyzer._analyze_edge_types
_analyze_edge_types(graph, n) ==
    [connection_types |-> CountTypes(graph, n, graph.adj[n]),
     strong_connections |->
        Cardinality({m \in Range(graph.adj[n]) : EdgeWeight(graph, n, m) > (7 * Scale) \div 10}),
     total_connections |-> Len(graph.adj[n])]

\* nx.clustering(graph, n): triangles through n over pairs of neighbours
clustering(graph, n) ==
    LET nbrs == Range(graph.adj[n]) \ {n}
        d == Cardinality(nbrs)
        triangles == Cardinality({e \in SUBSET nbrs : Cardinality(e) = 2 /\ e \in DOMAIN graph.attr})
    IN IF d < 2 THEN 0 ELSE (Scale * 2 * triangles) \div (d * (d - 1))

\* nx.degree_centrality(graph)[n]
degree_centrality(graph, n) ==
    IF number_of_nodes(graph) <= 1 THEN Scale
    ELSE (Scale * degree(graph, n)) \div (number_of_nodes(graph) - 1)

\* What the networkx functions nx.betweenness_centrality, nx.closeness_centrality,
\* nx.eigenvector_centrality and nx.pagerank give for the channel.  Their
\* values come from shortest paths and power iterations in floating point and
\* are inputs here: raised says that one of betweenness_centrality,
\* closeness_centrality or pagerank raised, eigenvector.raised that
\* eigenvector_centrality did (it does when the iteration does not converge).
NxScores == {Scale \div 20, Scale \div 4}

NxOutcomes ==
    {[raised |-> TRUE, betweenness |-> 0, closeness |-> 0,
      eigenvector |-> [raised |-> FALSE, value |-> 0], pagerank |-> 0]}
        \cup {[raised |-> FALSE, betweenness |-> b, closeness |-> Scale \div 4,
               eigenvector |-> e, pagerank |-> p] :
                b \in {0, Scale \div 4},
                e \in {[raised |-> TRUE, value |-> 0], [raised |-> FALSE, value |-> Scale \div 4]},
                p \in NxScores}

\* NetworkAnalyzer._calculate_centrality_metrics: any exception but the one of
\* eigenvector_centrality sets all five scores to 0.0
_calculate_centrality_metrics(graph, n, nx) ==
    LET connected == is_connected(graph)
    IN IF nx.raised \/ connected.raised
       THEN [degree_centrality |-> 0, betweenness_centrality |-> 0,
             closeness_centrality |-> 0, eigenvector_centrality |-> 0, pagerank |-> 0]
       ELSE [degree_centrality |-> degree_centrality(graph, n),
             betweenness_centrality |-> nx.betweenness,
             closeness_centrality |-> IF connected.value THEN nx.closeness ELSE 0,
             eigenvector_centrality |->
                IF nx.eigenvector.raised THEN 0 ELSE nx.eigenvector.value,
             pagerank |-> nx.pagerank]

\* metrics that take a channel the graph does not have for a graph of its own
MetricsOfLoneNode(graph, n, nx) ==
    IF ~HasNode(graph, n) THEN [_empty_metrics EXCEPT !.degree_centrality = Scale]
    ELSE _empty_metrics

\* NetworkAnalyzer.calculate_network_metrics.  With numeric edge weights no
\* call in its try block raises for a node of the graph, so the handler that
\* returns _empty_metrics() is not entered.
calculate_network_metrics(graph, n, nx) ==
    IF ~HasNode(graph, n) THEN _empty_metrics
    ELSE Update(
            Update([degree |-> degree(graph, n),
                    weighted_degree |-> weighted_degree(graph, n),
                    clustering_coefficient |-> clustering(graph, n),
                    neighbors_count |-> Len(graph.adj[n]),
                    neighbors |-> graph.adj[n]],
                   IF number_of_nodes(graph) > 1
                   THEN _calculate_centrality_metrics(graph, n, nx)
                   ELSE EmptyDict),
            _analyze_edge_types(graph, n))

(***************************************************************************)
(* Python floats                                                           *)
(*                                                                         *)
(* The modularity is kept as the IEEE-754 double the code computes, since  *)
(* its running sum is rounded at every addition.  A double x that is 0 or  *)
(* lies in [2^-19, 4096) is the sequence of its seven digits in base 4096, *)
(* one before the point and six after it:                                  *)
(*     x = d[1] + d[2] / 4096 + d[3] / 4096^2 + ... + d[7] / 4096^6.       *)
(* The 84 binary digits are numbered from the left: bit p weighs 2^(12-p). *)
(***************************************************************************)
LimbBase == 2^12

Limbs == 1..7

\* 0.0
FloatZero == [i \in Limbs |-> 0]

\* 1.0
FloatOne == [i \in Limbs |-> IF i = 1 THEN 1 ELSE 0]

\* a <= b
FloatLeq(a, b) ==
    \/ a = b
    \/ \E i \in Limbs : a[i] < b[i] /\ \A j \in 1..(i - 1) : a[j] = b[j]

\* the carry into digit i of a + b
RECURSIVE CarryInto(_, _, _)
CarryInto(a, b, i) ==
    IF i = 7 THEN 0
    ELSE (a[i + 1] + b[i + 1] + CarryInto(a, b, i + 1)) \div LimbBase

\* the exact sum of two digit sequences
FixedSum(a, b) == [i \in Limbs |-> (a[i] + b[i] + CarryInto(a, b, i)) % LimbBase]

RECURSIVE BitLength(_)
BitLength(n) == IF n = 0 THEN 0 ELSE 1 + BitLength(n \div 2)

\* the number of the leading 1 bit of a non-zero digit sequence
LeadingBit(a) ==
    LET i == CHOOSE k \in Limbs : a[k] # 0 /\ \A j \in 1..(k - 1) : a[j] = 0
    IN 12 * i - BitLength(a[i]) + 1

\* the digit that holds bit p, and the weight of bit p inside that digit
LimbOfBit(p) == (p - 1) \div 12 + 1

WeightOfBit(p) == 2^(11 - ((p - 1) % 12))

\* round-half-to-even of an exact value to the 53 significant bits of a
\* double; sticky says that the exact value has more non-zero digits after
\* the seven given
RoundToDouble(a, sticky) ==
    IF a = FloatZero THEN a
    ELSE LET last == LeadingBit(a) + 52
         IN IF last >= 84 THEN a
            ELSE LET li == LimbOfBit(last)
                     w == WeightOfBit(last)
                     gl == LimbOfBit(last + 1)
                     gw == WeightOfBit(last + 1)
                     kept == [i \in Limbs |-> IF i < li THEN a[i]
                                              ELSE IF i = li THEN a[i] - (a[i] % w)
                                              ELSE 0]
                     half == (a[gl] \div gw) % 2 = 1
                     rest == \/ a[gl] % gw # 0
                             \/ \E i \in Limbs : i > gl /\ a[i] # 0
                             \/ sticky
                     odd == (a[li] \div w) % 2 = 1
                 IN IF half /\ (rest \/ odd)
                    THEN FixedSum(kept, [i \in Limbs |-> IF i = li THEN w ELSE 0])
                    ELSE kept

\* the remainder of the long division k / n after i digits behind the point
RECURSIVE RemAfter(_, _, _)
RemAfter(k, n, i) ==
    IF i = 0 THEN k % n ELSE (RemAfter(k, n, i - 1) * LimbBase) % n

\* k / n for ints 0 <= k and 0 < n < 2^19: the double nearest to the quotient
FloatDiv(k, n) ==
    RoundToDouble([i \in Limbs |-> IF i = 1 THEN k \div n
                                   ELSE (RemAfter(k, n, i - 2) * LimbBase) \div n],
                  RemAfter(k, n, 6) # 0)

\* a + b of two doubles: the double nearest to the exact sum
FloatAdd(a, b) == RoundToDouble(FixedSum(a, b), FALSE)

\* |a - b| <= 2^-40
FloatNear(a, b) ==
    LET eps == [i \in Limbs |-> IF i = 5 THEN 2^8 ELSE 0]
    IN FloatLeq(a, FixedSum(b, eps)) /\ FloatLeq(b, FixedSum(a, eps))

(***************************************************************************)
(* NetworkAnalyzer: communities                                            *)
(***************************************************************************)
\* a loop that also follows edges of weight exactly 0.5
RECURSIVE VisitNeighborsFromHalf(_, _, _, _)
VisitNeighborsFromHalf(graph, current_node, nbrs, st) ==
    IF nbrs = <<>> THEN st
    ELSE LET neighbor == Head(nbrs)
             take == /\ neighbor \notin st.visited
                     /\ EdgeWeight(graph, current_node, neighbor) >= (5 * Scale) \div 10
         IN VisitNeighborsFromHalf(graph, current_node, Tail(nbrs),
                IF take
                THEN [community |-> st.community \cup {neighbor},
                      visited |-> st.visited \cup {neighbor},
                      queue |-> Append(st.queue, neighbor)]
                ELSE st)

\* the for loop over graph.neighbors(current_node) in _expand_community
RECURSIVE VisitNeighbors(_, _, _, _)
VisitNeighbors(graph, current_node, nbrs, st) ==
    IF nbrs = <<>> THEN st
    ELSE LET neighbor == Head(nbrs)
             take == /\ neighbor \notin st.visited
                     /\ EdgeWeight(graph, current_node, neighbor) > (5 * Scale) \div 10
         IN VisitNeighbors(graph, current_node, Tail(nbrs),
                IF take
                THEN [community |-> st.community \cup {neighbor},
                      visited |-> st.visited \cup {neighbor},
                      queue |-> Append(st.queue, neighbor)]
                ELSE st)

\* the while loop of _expand_community
RECURSIVE ExpandQueue(_, _)
ExpandQueue(graph, st) ==
    IF st.queue = <<>> THEN st
    ELSE LET current_node == Head(st.queue)
         IN ExpandQueue(graph,
                VisitNeighbors(graph, current_node, graph.adj[current_node],
                               [st EXCEPT !.queue = Tail(st.queue)]))

\* NetworkAnalyzer._expand_community: the community and the updated visited set
_expand_community(graph, start_node, visited) ==
    ExpandQueue(graph, [community |-> {start_node},
                        visited |-> visited \cup {start_node},
                        queue |-> <<start_node>>])

\* the for loop over graph.nodes() in _louvain_approximation
RECURSIVE LouvainLoop(_, _, _, _)
LouvainLoop(graph, nodes, communities, visited) ==
    IF nodes = <<>> THEN communities
    ELSE IF Head(nodes) \in visited
         THEN LouvainLoop(graph, Tail(nodes), communities, visited)
         ELSE LET st == _expand_community(graph, Head(nodes), visited)
              IN LouvainLoop(graph, Tail(nodes), Append(communities, st.community),
                             st.visited)

\* NetworkAnalyzer._louvain_approximation: communities[i] is community id i - 1
_louvain_approximation(graph) == LouvainLoop(graph, graph.nodes, <<>>, {})

\* the loop 'modularity += internal_edges / total_edges' over the communities
\* in the order of their ids: a float division and a float addition each turn
RECURSIVE SumInternal(_, _, _, _)
SumInternal(graph, communities, total_edges, modularity) ==
    IF communities = <<>> THEN modularity
    ELSE LET internal_edges == Cardinality(SubgraphEdges(graph, Head(communities)))
         IN SumInternal(graph, Tail(communities), total_edges,
                        FloatAdd(modularity, FloatDiv(internal_edges, total_edges)))

\* NetworkAnalyzer._calculate_modularity: a double, not clipped
_calculate_modularity(graph, communities) ==
    LET total_edges == number_of_edges(graph)
    IN IF total_edges = 0 THEN FloatZero
       ELSE SumInternal(graph, communities, total_edges, FloatZero)

\* NetworkAnalyzer.detect_communities
detect_communities(graph) ==
    LET communities == _louvain_approximation(graph)
    IN [communities |-> communities,
        modularity |-> _calculate_modularity(graph, communities),
        community_count |-> Len(communities),
        community_stats |->
            [i \in 1..Len(communities) |->
                [size |-> Cardinality(communities[i]),
                 density |-> density(communities[i], SubgraphEdges(graph, communities[i])),
                 nodes |-> communities[i]]]]

(***************************************************************************)
(* TemporalAnalyzer                                                        *)
(*                                                                         *)
(* A post is [id, text, published_at]; published_at is None, a timestamp   *)
(* in minutes, or BadTime: a string datetime.fromisoformat rejects.        *)
(* An hour-to-count dict keeps its insertion order: it is the sequence of  *)
(* its items [hour, count].                                                *)
(***************************************************************************)
BadTime == -1

HourOf(published_at) == (published_at \div 60) % 24

DictKeys(items) == {items[i].hour : i \in 1..Len(items)}

DictGet(items, hour, default) ==
    IF hour \in DictKeys(items)
    THEN (CHOOSE it \in Range(items) : it.hour = hour).count
    ELSE default

\* hourly_activity[hour] = hourly_activity.get(hour, 0) + 1
DictIncrement(items, hour) ==
    IF hour \in DictKeys(items)
    THEN [i \in 1..Len(items) |->
            IF items[i].hour = hour
            THEN [hour |-> hour, count |-> items[i].count + 1]
            ELSE items[i]]
    ELSE Append(items, [hour |-> hour, count |-> 1])

RECURSIVE HourlyLoop(_, _)
HourlyLoop(ps, items) ==
    IF ps = <<>> THEN items
    ELSE HourlyLoop(Tail(ps),
            IF Head(ps).published_at # None
            THEN DictIncrement(items, HourOf(Head(ps).published_at))
            ELSE items)

HasBadTime(ps) == \E i \in 1..Len(ps) : ps[i].published_at = BadTime

\* TemporalAnalyzer._get_hourly_activity (fromisoformat raises ValueError)
_get_hourly_activity(ps) ==
    IF HasBadTime(ps) THEN [raised |-> TRUE, value |-> <<>>]
    ELSE [raised |-> FALSE, value |-> HourlyLoop(ps, <<>>)]

\* sorted(..., key=count, reverse=True): stable, so equal counts keep their order
RECURSIVE InsertByCountDesc(_, _)
InsertByCountDesc(sorted, item) ==
    IF sorted = <<>> THEN <<item>>
    ELSE IF Head(sorted).count >= item.count
         THEN <<Head(sorted)>> \o InsertByCountDesc(Tail(sorted), item)
         ELSE <<item>> \o sorted

RECURSIVE SortByCountDesc(_)
SortByCountDesc(items) ==
    IF items = <<>> THEN <<>>
    ELSE InsertByCountDesc(SortByCountDesc(SubSeq(items, 1, Len(items) - 1)),
                           items[Len(items)])

\* the slice s[:k]
SliceTo(s, k) ==
    IF k >= 0 THEN SubSeq(s, 1, Min(k, Len(s))) ELSE SubSeq(s, 1, Len(s) + k)

\* the first top_k hours of the dict, unsorted
FirstHours(hourly_activity, top_k) ==
    LET first_hours == SliceTo(hourly_activity, top_k)
    IN [i \in 1..Len(first_hours) |-> first_hours[i].hour]

\* TemporalAnalyzer._find_peak_hours
_find_peak_hours(hourly_activity, top_k) ==
    LET sorted_hours == SliceTo(SortByCountDesc(hourly_activity), top_k)
    IN [i \in 1..Len(sorted_hours) |-> sorted_hours[i].hour]

\* the default of top_k
DefaultTopK == 3

\* TemporalAnalyzer._calculate_time_diff_signed, in minutes
_calculate_time_diff_signed(date1, date2) ==
    IF date1 = None \/ date2 = None THEN 0 ELSE date1 - date2

\* TemporalAnalyzer._calculate_time_diff
_calculate_time_diff(date1, date2) == Abs(_calculate_time_diff_signed(date1, date2))

\* threshold_minutes of _find_synchronized_posts
SyncThresholdMinutes == 30

\* sync_details keeps the first 10
SyncDetailsShown == 10

\* the pairs in loop order: post1 outer, post2 inner
SyncCandidates(posts1, posts2) ==
    [k \in 1..(Len(posts1) * Len(posts2)) |->
        LET post1 == posts1[((k - 1) \div Len(posts2)) + 1]
            post2 == posts2[((k - 1) % Len(posts2)) + 1]
        IN [post1_id |-> post1.id, post2_id |-> post2.id,
            time_diff_minutes |-> _calculate_time_diff(post1.published_at, post2.published_at),
            post1_date |-> post1.published_at,
            post2_date |-> post2.published_at]]

\* sorted(..., key=time_diff_minutes): stable, ascending
RECURSIVE InsertByTimeDiff(_, _)
InsertByTimeDiff(sorted, item) ==
    IF sorted = <<>> THEN <<item>>
    ELSE IF Head(sorted).time_diff_minutes <= item.time_diff_minutes
         THEN <<Head(sorted)>> \o InsertByTimeDiff(Tail(sorted), item)
         ELSE <<item>> \o sorted

RECURSIVE SortByTimeDiff(_)
SortByTimeDiff(items) ==
    IF items = <<>> THEN <<>>
    ELSE InsertByTimeDiff(SortByTimeDiff(SubSeq(items, 1, Len(items) - 1)),
                          items[Len(items)])

\* a filter that drops the pairs exactly threshold_minutes apart
RECURSIVE KeepCloserThanThreshold(_)
KeepCloserThanThreshold(cands) ==
    IF cands = <<>> THEN <<>>
    ELSE IF Head(cands).time_diff_minutes < SyncThresholdMinutes
         THEN <<Head(cands)>> \o KeepCloserThanThreshold(Tail(cands))
         ELSE KeepCloserThanThreshold(Tail(cands))

RECURSIVE KeepSynchronized(_)
KeepSynchronized(cands) ==
    IF cands = <<>> THEN <<>>
    ELSE IF Head(cands).time_diff_minutes <= SyncThresholdMinutes
         THEN <<Head(cands)>> \o KeepSynchronized(Tail(cands))
         ELSE KeepSynchronized(Tail(cands))

\* TemporalAnalyzer._find_synchronized_posts
_find_synchronized_posts(posts1, posts2) ==
    SortByTimeDiff(KeepSynchronized(SyncCandidates(posts1, posts2)))

\* posts are matched when at most this many minutes apart
SequenceWindowMinutes == 120

\* the inner loop of _analyze_posting_sequence over posts2, for one post1
RECURSIVE ClosestLoop(_, _, _)
ClosestLoop(post1, ps2, best) ==
    IF ps2 = <<>> THEN best
    ELSE LET time_diff == _calculate_time_diff_signed(post1.published_at,
                                                      Head(ps2).published_at)
         IN ClosestLoop(post1, Tail(ps2),
                IF (~best.found \/ Abs(time_diff) < best.min_time_diff)
                      /\ Abs(time_diff) <= SequenceWindowMinutes
                THEN [found |-> TRUE, min_time_diff |-> Abs(time_diff),
                      lead_lag_time |-> time_diff]
                ELSE best)

RECURSIVE LeadLagLoop(_, _)
LeadLagLoop(ps1, posts2) ==
    IF ps1 = <<>> THEN <<>>
    ELSE LET best == ClosestLoop(Head(ps1), posts2,
                        [found |-> FALSE, min_time_diff |-> 0, lead_lag_time |-> 0])
         IN (IF best.found
             THEN <<[time_diff |-> best.lead_lag_time,
                     channel1_leads |-> best.lead_lag_time < 0]>>
             ELSE <<>>) \o LeadLagLoop(Tail(ps1), posts2)

RECURSIVE SumAbsTimeDiff(_)
SumAbsTimeDiff(pairs) ==
    IF pairs = <<>> THEN 0 ELSE Abs(Head(pairs).time_diff) + SumAbsTimeDiff(Tail(pairs))

\* a summary of the pairs that names channel 1 the leader on a tie as well
SequenceWithTiesToChannel1(posts1, posts2) ==
    LET lead_lag_analysis == LeadLagLoop(posts1, posts2)
        total == Len(lead_lag_analysis)
        channel1_leads_count ==
            Cardinality({i \in 1..total : lead_lag_analysis[i].channel1_leads})
    IN IF total > 0
       THEN [total_pairs |-> total,
             channel1_leads_count |-> channel1_leads_count,
             channel2_leads_count |-> total - channel1_leads_count,
             average_lead_time_minutes |-> (Scale * SumAbsTimeDiff(lead_lag_analysis)) \div total,
             dominant_leader |-> IF 2 * channel1_leads_count >= total
                                 THEN "channel1" ELSE "channel2"]
       ELSE [total_pairs |-> 0]

\* TemporalAnalyzer._analyze_posting_sequence
_analyze_posting_sequence(posts1, posts2) ==
    LET lead_lag_analysis == LeadLagLoop(posts1, posts2)
        total == Len(lead_lag_analysis)
        channel1_leads_count ==
            Cardinality({i \in 1..total : lead_lag_analysis[i].channel1_leads})
    IN IF total > 0
       THEN [total_pairs |-> total,
             channel1_leads_count |-> channel1_leads_count,
             channel2_leads_count |-> total - channel1_leads_count,
             average_lead_time_minutes |-> (Scale * SumAbsTimeDiff(lead_lag_analysis)) \div total,
             dominant_leader |-> IF 2 * channel1_leads_count > total
                                 THEN "channel1" ELSE "channel2"]
       ELSE [total_pairs |-> 0]

\* the 24 hourly counts
ActivityVector(items) == [h \in 0..23 |-> DictGet(items, h, 0)]

RECURSIVE SumOver(_, _)
SumOver(f, hs) ==
    IF hs = {} THEN 0
    ELSE LET h == CHOOSE x \in hs : TRUE IN f[h] + SumOver(f, hs \ {h})

\* the largest k in lo..hi with k * k * den <= num
RECURSIVE RootSearch(_, _, _, _)
RootSearch(num, den, lo, hi) ==
    IF lo >= hi THEN lo
    ELSE LET mid == (lo + hi + 1) \div 2
         IN IF mid * mid * den <= num
            THEN RootSearch(num, den, mid, hi)
            ELSE RootSearch(num, den, lo, mid - 1)

\* a coefficient that is undefined only when both vectors are constant, and a
\* defined 0 when one of them is
PearsonrNanIfBothConstant(a1, a2) ==
    LET hs == 0..23
        s1 == SumOver(a1, hs)
        s2 == SumOver(a2, hs)
        cov == 24 * SumOver([h \in hs |-> a1[h] * a2[h]], hs) - s1 * s2
        var1 == 24 * SumOver([h \in hs |-> a1[h] * a1[h]], hs) - s1 * s1
        var2 == 24 * SumOver([h \in hs |-> a2[h] * a2[h]], hs) - s2 * s2
    IN IF var1 = 0 /\ var2 = 0 THEN [nan |-> TRUE, correlation |-> 0]
       ELSE IF var1 = 0 \/ var2 = 0 THEN [nan |-> FALSE, correlation |-> 0]
       ELSE [nan |-> FALSE,
             correlation |-> (IF cov < 0 THEN -1 ELSE 1)
                                * RootSearch(100 * 100 * cov * cov, var1 * var2, 0, 100)
                                * (Scale \div 100)]

\* stats.pearsonr on the two 24-entry vectors: nan on a constant vector; the
\* coefficient is rounded towards 0 to a multiple of 0.01
pearsonr(a1, a2) ==
    LET hs == 0..23
        s1 == SumOver(a1, hs)
        s2 == SumOver(a2, hs)
        cov == 24 * SumOver([h \in hs |-> a1[h] * a2[h]], hs) - s1 * s2
        var1 == 24 * SumOver([h \in hs |-> a1[h] * a1[h]], hs) - s1 * s1
        var2 == 24 * SumOver([h \in hs |-> a2[h] * a2[h]], hs) - s2 * s2
    IN IF var1 = 0 \/ var2 = 0 THEN [nan |-> TRUE, correlation |-> 0]
       ELSE [nan |-> FALSE,
             correlation |-> (IF cov < 0 THEN -1 ELSE 1)
                                * RootSearch(100 * 100 * cov * cov, var1 * var2, 0, 100)
                                * (Scale \div 100)]

\* TemporalAnalyzer.calculate_time_correlation (the p-value is kept only as
\* defined / replaced by 1.0)
calculate_time_correlation(posts1, posts2) ==
    LET hourly_activity1 == _get_hourly_activity(posts1)
        hourly_activity2 == _get_hourly_activity(posts2)
        r == pearsonr(ActivityVector(hourly_activity1.value),
                      ActivityVector(hourly_activity2.value))
        sync_posts == _find_synchronized_posts(posts1, posts2)
    IN IF hourly_activity1.raised \/ hourly_activity2.raised
       THEN [raised |-> TRUE, value |-> EmptyDict]
       ELSE [raised |-> FALSE,
             value |-> [hourly_correlation |-> IF r.nan THEN 0 ELSE r.correlation,
                        correlation_p_value_is_one |-> r.nan,
                        synchronized_posts |-> Len(sync_posts),
                        sync_details |-> SliceTo(sync_posts, SyncDetailsShown),
                        sequence_analysis |-> _analyze_posting_sequence(posts1, posts2),
                        activity_patterns |->
                            [channel1_peak_hours |->
                                _find_peak_hours(hourly_activity1.value, DefaultTopK),
                             channel2_peak_hours |->
                                _find_peak_hours(hourly_activity2.value, DefaultTopK)]]]

(***************************************************************************)
(* Specification SpecPeak: _find_peak_hours on bounded hour-to-count dicts *)
(***************************************************************************)
PeakHours == {9, 10, 11, 23}

MaxCount == 2

MaxTopK == 3

\* dicts: distinct hours in any insertion order, positive counts
HourlyActivities ==
    {items \in SeqsUpTo([hour : PeakHours, count : 1..MaxCount], Cardinality(PeakHours)) :
        \A i, j \in 1..Len(items) : i # j => items[i].hour # items[j].hour}

InitPeak ==
    /\ pc = "call"
    /\ call \in {[fn |-> "_find_peak_hours", hourly_activity |-> a, top_k |-> k] :
                    a \in HourlyActivities, k \in 0..MaxTopK}
    /\ ret = NoCall
    /\ OrchIdle

FindPeakHoursReturns ==
    /\ pc = "call"
    /\ call.fn = "_find_peak_hours"
    /\ ret' = _find_peak_hours(call.hourly_activity, call.top_k)
    /\ pc' = "ret"
    /\ UNCHANGED <<call, orchVars>>

NextPeak == FindPeakHoursReturns

SpecPeak == InitPeak /\ [][NextPeak]_vars

\* C8: _find_peak_hours returns min(top_k, number of hours) distinct hours of
\* the dict in non-increasing order of their counts, and no hour left out has
\* a count greater than a returned hour.
C8_PeakHoursSortedTopK ==
    pc = "ret" =>
        LET a == call.hourly_activity
            cnt(h) == DictGet(a, h, 0)
        IN /\ Len(ret) = Min(call.top_k, Len(a))
           /\ Range(ret) \subseteq DictKeys(a)
           /\ \A i, j \in 1..Len(ret) : i # j => ret[i] # ret[j]
           /\ \A i \in 1..(Len(ret) - 1) : cnt(ret[i]) >= cnt(ret[i + 1])
           /\ \A h \in DictKeys(a) \ Range(ret) :
                \A i \in 1..Len(ret) : cnt(h) <= cnt(ret[i])

\* a cut through more hours than top_k, with counts that differ, given out of order
C8_Witness ==
    /\ pc = "ret"
    /\ Len(call.hourly_activity) > call.top_k
    /\ Len(ret) >= 2
    /\ call.hourly_activity[1].count < call.hourly_activity[Len(call.hourly_activity)].count
    /\ DictGet(call.hourly_activity, ret[1], 0) > DictGet(call.hourly_activity, ret[2], 0)

(***************************************************************************)
(* Specification SpecSync: calculate_time_correlation on bounded posts     *)
(***************************************************************************)
MaxPosts1 == 4

MaxPosts2 == 3

Times1 == {600, 630, 631}

Times2 == {None, 600, 601}

\* channel 1's posts have ids 1, 2, ...; channel 2's 101, 102, ...
PostsAt(times, base) ==
    [i \in 1..Len(times) |-> [id |-> base + i, text |-> <<"alpha">>, published_at |-> times[i]]]

InitSync ==
    /\ pc = "call"
    /\ call \in {[fn |-> "calculate_time_correlation",
                  posts1 |-> PostsAt(t1, 0), posts2 |-> PostsAt(t2, 100)] :
                    t1 \in SeqsUpTo(Times1, MaxPosts1), t2 \in SeqsUpTo(Times2, MaxPosts2)}
    /\ ret = NoCall
    /\ OrchIdle

TimeCorrelationReturns ==
    /\ pc = "call"
    /\ call.fn = "calculate_time_correlation"
    /\ ret' = calculate_time_correlation(call.posts1, call.posts2)
    /\ pc' = "ret"
    /\ UNCHANGED <<call, orchVars>>

NextSync == TimeCorrelationReturns

SpecSync == InitSync /\ [][NextSync]_vars

\* the cross pairs published at most 30 minutes apart: both posts have a
\* publication time and the two times differ by 30 minutes or less
SyncPairs(posts1, posts2) ==
    {<<i, j>> \in (1..Len(posts1)) \X (1..Len(posts2)) :
        /\ posts1[i].published_at # None
        /\ posts2[j].published_at # None
        /\ Abs(posts1[i].published_at - posts2[j].published_at) <= 30}

\* C10: synchronized_posts is the number of all cross pairs at most 30 minutes
\* apart (inclusive), not capped at 10; sync_details holds the min(10, count)
\* such pairs with the smallest differences, ascending by time_diff_minutes.
C10_SynchronizedPostsCountAndDetails ==
    pc = "ret" =>
        LET pairs == SyncPairs(call.posts1, call.posts2)
            details == ret.value.sync_details
            diff(p) == Abs(_calculate_time_diff_signed(call.posts1[p[1]].published_at,
                                                       call.posts2[p[2]].published_at))
            shown == {<<details[k].post1_id, details[k].post2_id - 100>> : k \in 1..Len(details)}
        IN /\ ~ret.raised
           /\ ret.value.synchronized_posts = Cardinality(pairs)
           /\ Len(details) = Min(10, Cardinality(pairs))
           /\ Cardinality(shown) = Len(details)
           /\ shown \subseteq pairs
           /\ \A k \in 1..Len(details) :
                details[k].time_diff_minutes = diff(<<details[k].post1_id, details[k].post2_id - 100>>)
           /\ \A k \in 1..(Len(details) - 1) :
                details[k].time_diff_minutes <= details[k + 1].time_diff_minutes
           /\ \A p \in pairs \ shown : \A k \in 1..Len(details) :
                details[k].time_diff_minutes <= diff(p)

\* for posts that all have a publication time the count, the cap and the
\* order of sync_details are as C10 states them
TimedPostsSynchronizedCountAndDetails ==
    (pc = "ret" /\ \A j \in 1..Len(call.posts2) : call.posts2[j].published_at # None)
        => C10_SynchronizedPostsCountAndDetails

\* all timestamps present, more than 10 synchronized pairs, one exactly 30
\* minutes apart, one pair further apart, differing differences among those shown
C10_Witness ==
    /\ pc = "ret"
    /\ ret.value.synchronized_posts > 10
    /\ Len(ret.value.sync_details) = 10
    /\ ret.value.synchronized_posts < Len(call.posts1) * Len(call.posts2)
    /\ \A j \in 1..Len(call.posts2) : call.posts2[j].published_at # None
    /\ \E i \in 1..Len(call.posts1), j \in 1..Len(call.posts2) :
        call.posts1[i].published_at - call.posts2[j].published_at = 30
    /\ ret.value.sync_details[1].time_diff_minutes < ret.value.sync_details[10].time_diff_minutes

(***************************************************************************)
(* MainAnalysisEngine: the three branches                                  *)
(*                                                                         *)
(* A related channel is [id, name, posts, connection]; connection is {} or *)
(* [strength, type].  A branch task is [state, local, result]: it is       *)
(* "created", suspended on a worker-pool job ("await_..."), ready to      *)
(* resume with the result of its job ("topics_ready"), "done" (result is   *)
(* what the coroutine returned) or "failed" (it raised).                   *)
(***************************************************************************)
Branches == <<"content", "temporal", "network">>

\* posts[:50] and related_posts[:50]
SimilarityPostCap == 50

\* duplicates[:20]
DuplicatesShown == 20

RECURSIVE SumSeq(_)
SumSeq(q) == IF q = <<>> THEN 0 ELSE Head(q) + SumSeq(Tail(q))

MaxOf(q) == CHOOSE m \in Range(q) : \A x \in Range(q) : x <= m

\* the similarities of one related channel, in loop order
SimilarityPairs(ps, rps, sem) ==
    [k \in 1..(Len(ps) * Len(rps)) |->
        calculate_text_similarity(ps[((k - 1) \div Len(rps)) + 1].text,
                                  rps[((k - 1) % Len(rps)) + 1].text, sem)]

\* the loop over related_channels of _analyze_content_relationships
RECURSIVE SimilarityLoop(_, _, _)
SimilarityLoop(ps, related, sem) ==
    IF related = <<>> THEN [raised |-> FALSE, value |-> <<>>]
    ELSE LET related_channel == Head(related)
             sims == SimilarityPairs(SliceTo(ps, SimilarityPostCap),
                                     SliceTo(related_channel.posts, SimilarityPostCap), sem)
             similarities == [k \in 1..Len(sims) |-> sims[k].value.overall]
             rest == SimilarityLoop(ps, Tail(related), sem)
         IN IF \E k \in 1..Len(sims) : sims[k].raised
            THEN [raised |-> TRUE, value |-> <<>>]
            ELSE IF rest.raised THEN rest
            ELSE [raised |-> FALSE,
                  value |->
                    (IF related_channel.posts # <<>> /\ similarities # <<>>
                     THEN <<[channel_id |-> related_channel.id,
                             channel_name |-> related_channel.name,
                             average_similarity |-> SumSeq(similarities) \div Len(similarities),
                             max_similarity |-> MaxOf(similarities),
                             high_similarity_count |->
                                Cardinality({k \in 1..Len(similarities) :
                                                similarities[k] > (7 * Scale) \div 10})]>>
                     ELSE <<>>) \o rest.value]

\* a computation and the thread it runs on: a worker-pool thread (through
\* run_in_executor) or the event-loop thread (called in the coroutine)
OnPool(what) == [what |-> what, on |-> "pool"]

OnLoop(what) == [what |-> what, on |-> "loop"]

\* _analyze_content_relationships from the return of the detect_duplicates job
\* to the submission of the extract_topics job (or to its return); loop_work:
\* what it computed itself on the way
ContentAfterDuplicates(ps, related, sem, config) ==
    LET duplicates == detect_duplicates(ps, sem, config)
        similarity_results == SimilarityLoop(ps, related, sem)
        all_texts == SelectSeq([i \in 1..Len(ps) |-> ps[i].text], LAMBDA t : t # <<>>)
        compared == ps # <<>> /\ \E i \in 1..Len(related) : related[i].posts # <<>>
    IN IF duplicates.raised \/ similarity_results.raised
       THEN [raised |-> TRUE, value |-> EmptyDict, all_texts |-> <<>>,
             loop_work |-> IF duplicates.raised \/ ~compared THEN {}
                           ELSE {OnLoop("calculate_text_similarity")}]
       ELSE [raised |-> FALSE,
             loop_work |-> IF compared THEN {OnLoop("calculate_text_similarity")} ELSE {},
             value |->
                [duplicate_analysis |->
                    [total_duplicates |-> Len(duplicates.value),
                     duplicates |-> SliceTo(duplicates.value, DuplicatesShown),
                     duplicate_rate |-> IF ps # <<>>
                                        THEN (Scale * Len(duplicates.value)) \div Len(ps)
                                        ELSE 0],
                 similarity_analysis |-> similarity_results.value,
                 topic_analysis |-> EmptyDict,
                 keyword_analysis |-> EmptyDict],
             all_texts |-> all_texts]

\* the next related channel, from index k on, that has posts (0: none)
NextWithPosts(related, k) ==
    IF \E i \in k..Len(related) : related[i].posts # <<>>
    THEN CHOOSE i \in k..Len(related) :
            /\ related[i].posts # <<>>
            /\ \A j \in k..(i - 1) : related[j].posts = <<>>
    ELSE 0

\* _analyze_temporal_relationships up to the first correlation job
TemporalStart(ps) ==
    LET hourly_activity == _get_hourly_activity(ps)
    IN IF hourly_activity.raised THEN [raised |-> TRUE, value |-> EmptyDict]
       ELSE [raised |-> FALSE,
             value |->
                [posting_patterns |->
                    [hourly_distribution |-> hourly_activity.value,
                     peak_hours |-> _find_peak_hours(hourly_activity.value, DefaultTopK),
                     total_posts |-> Len(ps),
                     average_posts_per_hour |-> IF ps # <<>> THEN (Scale * Len(ps)) \div 24 ELSE 0],
                 correlations |-> <<>>,
                 synchronization_analysis |-> EmptyDict]]

\* the connections list _analyze_network_relationships builds
RECURSIVE NetworkConnections(_, _)
NetworkConnections(cid, related) ==
    IF related = <<>> THEN <<>>
    ELSE (IF Head(related).connection # EmptyDict
          THEN <<[source_id |-> cid,
                  target_id |-> Head(related).id,
                  strength |-> Get(Head(related).connection, "strength", 0),
                  connection_type |-> Get(Head(related).connection, "type", "unknown")]>>
          ELSE <<>>) \o NetworkConnections(cid, Tail(related))

\* graph_stats at the end of _analyze_network_relationships
GraphStats(graph) ==
    LET connected == is_connected(graph)
    IN [raised |-> connected.raised,
        value |-> [nodes_count |-> number_of_nodes(graph),
                   edges_count |-> number_of_edges(graph),
                   density |-> density(Range(graph.nodes), DOMAIN graph.attr),
                   is_connected |-> connected.value]]

(***************************************************************************)
(* MainAnalysisEngine._create_relationship_summary                         *)
(***************************************************************************)
\* a filter that keeps every correlation
SelectAll(correlations) == correlations

RECURSIVE SelectStrong(_)
SelectStrong(correlations) ==
    IF correlations = <<>> THEN <<>>
    ELSE (IF Get(Head(correlations), "hourly_correlation", 0) > (6 * Scale) \div 10
          THEN <<Head(correlations)>> ELSE <<>>) \o SelectStrong(Tail(correlations))

\* np.mean of a non-empty list
Mean(q) == SumSeq(q) \div Len(q)

\* a summary whose duplicate factor is 2 * duplicate_rate, not capped at 1
SummaryWithoutCap(results) ==
    LET content == Get(results, "content_analysis", EmptyDict)
        duplicate_rate == Get(Get(content, "duplicate_analysis", EmptyDict), "duplicate_rate", 0)
        temporal == Get(results, "temporal_analysis", EmptyDict)
        strong_time_correlations == SelectStrong(Get(temporal, "correlations", <<>>))
        network == Get(results, "network_analysis", EmptyDict)
        metrics == Get(network, "metrics", EmptyDict)
        confidence_factors ==
            (IF duplicate_rate > 0 THEN <<duplicate_rate * 2>> ELSE <<>>)
            \o (IF strong_time_correlations # <<>>
                THEN <<Mean([i \in 1..Len(strong_time_correlations) |->
                                Get(strong_time_correlations[i], "hourly_correlation", 0)])>>
                ELSE <<>>)
            \o (IF Get(metrics, "pagerank", 0) > 0
                THEN <<Min(metrics["pagerank"] * 10, Scale)>> ELSE <<>>)
    IN [raised |-> FALSE,
        value |->
            [total_connections |-> Get(metrics, "total_connections", 0),
             strong_connections |-> Get(metrics, "strong_connections", 0),
             connection_types |-> Get(metrics, "connection_types", EmptyDict),
             confidence_score |-> IF confidence_factors # <<>> THEN Mean(confidence_factors) ELSE 0,
             key_insights |-> <<>>]]

\* a summary that subscripts the network metrics instead of using .get
SummaryBySubscript(results) ==
    LET network == Get(results, "network_analysis", EmptyDict)
    IN IF "metrics" \notin DOMAIN network
       THEN [raised |-> TRUE, value |-> EmptyDict]
       ELSE [raised |-> FALSE,
             value |-> [total_connections |-> Get(network.metrics, "total_connections", 0),
                        strong_connections |-> Get(network.metrics, "strong_connections", 0),
                        connection_types |-> Get(network.metrics, "connection_types", EmptyDict),
                        confidence_score |-> 0,
                        key_insights |-> <<>>]]

\* a summary that reports the duplicate insight from a rate of 0.1 on and
\* puts the correlation insight first
SummaryInsightsFromTenth(results) ==
    LET content == Get(results, "content_analysis", EmptyDict)
        duplicate_rate == Get(Get(content, "duplicate_analysis", EmptyDict), "duplicate_rate", 0)
        temporal == Get(results, "temporal_analysis", EmptyDict)
        strong_time_correlations == SelectStrong(Get(temporal, "correlations", <<>>))
        metrics == Get(Get(results, "network_analysis", EmptyDict), "metrics", EmptyDict)
    IN [raised |-> FALSE,
        value |->
            [total_connections |-> Get(metrics, "total_connections", 0),
             strong_connections |-> Get(metrics, "strong_connections", 0),
             connection_types |-> Get(metrics, "connection_types", EmptyDict),
             confidence_score |-> 0,
             key_insights |->
                (IF strong_time_correlations # <<>>
                 THEN <<[insight |-> "time_correlations",
                         count |-> Len(strong_time_correlations)]>>
                 ELSE <<>>)
                \o (IF duplicate_rate >= Scale \div 10
                    THEN <<[insight |-> "duplicates", duplicate_rate |-> duplicate_rate]>>
                    ELSE <<>>)]]

_create_relationship_summary(results) ==
    LET content == Get(results, "content_analysis", EmptyDict)
        duplicate_rate == Get(Get(content, "duplicate_analysis", EmptyDict), "duplicate_rate", 0)
        temporal == Get(results, "temporal_analysis", EmptyDict)
        correlations == Get(temporal, "correlations", <<>>)
        strong_time_correlations == SelectStrong(correlations)
        network == Get(results, "network_analysis", EmptyDict)
        metrics == Get(network, "metrics", EmptyDict)
        usePagerank == Get(metrics, "pagerank", 0) > 0
        confidence_factors ==
            (IF duplicate_rate > 0 THEN <<Min(duplicate_rate * 2, Scale)>> ELSE <<>>)
            \o (IF strong_time_correlations # <<>>
                THEN <<Mean([i \in 1..Len(strong_time_correlations) |->
                                Get(strong_time_correlations[i], "hourly_correlation", 0)])>>
                ELSE <<>>)
            \o (IF usePagerank /\ "pagerank" \in DOMAIN metrics
                THEN <<Min(metrics["pagerank"] * 10, Scale)>> ELSE <<>>)
    IN [raised |-> usePagerank /\ "pagerank" \notin DOMAIN metrics,
        value |->
            [total_connections |-> Get(metrics, "total_connections", 0),
             strong_connections |-> Get(metrics, "strong_connections", 0),
             connection_types |-> Get(metrics, "connection_types", EmptyDict),
             confidence_score |-> IF confidence_factors # <<>> THEN Mean(confidence_factors) ELSE 0,
             key_insights |->
                (IF duplicate_rate > Scale \div 10
                 THEN <<[insight |-> "duplicates", duplicate_rate |-> duplicate_rate]>>
                 ELSE <<>>)
                \o (IF strong_time_correlations # <<>>
                    THEN <<[insight |-> "time_correlations",
                            count |-> Len(strong_time_correlations)]>>
                    ELSE <<>>)]]

(***************************************************************************)
(* Specification Spec: analyze_channel_relationships                       *)
(*                                                                         *)
(* pc: "start", "await_content", "await_temporal", "await_network",        *)
(* "summary", then "returned", or "raised" when an exception leaves the    *)
(* call.  A branch resumes when its worker-pool job has returned; jobs of  *)
(* different branches return in any order.                                 *)
(***************************************************************************)
GoodPost == [text |-> <<"alpha">>, published_at |-> 600]

BadTimePost == [text |-> <<"beta">>, published_at |-> BadTime]

NonStrPost == [text |-> <<NonStr>>, published_at |-> 605]

PostKinds == {GoodPost, BadTimePost, NonStrPost}

WithIds(ps, base) ==
    [i \in 1..Len(ps) |-> [id |-> base + i, text |-> ps[i].text,
                           published_at |-> ps[i].published_at]]

RelatedKinds ==
    {[id |-> 2, name |-> "two", posts |-> WithIds(<<GoodPost>>, 200),
      connection |-> [strength |-> (8 * Scale) \div 10, type |-> "content_similarity"]],
     [id |-> 3, name |-> "three", posts |-> <<>>,
      connection |-> [strength |-> (6 * Scale) \div 10, type |-> "time_correlation"]],
     [id |-> None, name |-> "no id", posts |-> <<>>,
      connection |-> [strength |-> (8 * Scale) \div 10, type |-> "content_similarity"]],
     [id |-> 4, name |-> "four", posts |-> WithIds(<<GoodPost>>, 400),
      connection |-> EmptyDict]}

MaxOrchPosts == 2

MaxRelated == 2

NewTask == [state |-> "created", local |-> EmptyDict, result |-> EmptyDict, work |-> {}]

Settled(t) == t.state \in {"done", "failed"}

\* the arguments of analyze
PostsInputs == {WithIds(ps, 0) : ps \in SeqsUpTo(PostKinds, MaxOrchPosts)}

RelatedInputs == SeqsUpTo(RelatedKinds, MaxRelated)

SemInputs == {m \in SemanticModels : m.cosine = 0}

\* the engine's configuration: the defaults, or a duplicate_threshold of 0.5
ConfigInputs == {DefaultConfig, [duplicate_threshold |-> (5 * Scale) \div 10]}

\* the engines: a lowered threshold is tried with the embedding model loaded
EngineInputs ==
    {e \in [sem : SemInputs, config : ConfigInputs] :
        e.config # DefaultConfig => e.sem.available}

\* the function f as an explicit table: every value is computed once, not at
\* each application
Tabulated(f) == f @@ <<>>

\* ContentAfterDuplicates and calculate_time_correlation over the arguments
\* of analyze
ContentAfterDuplicatesOf ==
    Tabulated([ps \in PostsInputs, related \in RelatedInputs, e \in EngineInputs |->
                  ContentAfterDuplicates(ps, related, e.sem, e.config)])

TimeCorrelationOf ==
    Tabulated([ps \in PostsInputs, rps \in {r.posts : r \in RelatedKinds} |->
                  calculate_time_correlation(ps, rps)])

Init ==
    /\ pc = "start"
    /\ call \in {[fn |-> "analyze", sem |-> e.sem, config |-> e.config] : e \in EngineInputs}
    /\ ret = NoCall
    /\ channel_id = 1
    /\ related_channels \in RelatedInputs
    /\ posts \in PostsInputs
    /\ task = NoTasks
    /\ analysis_results = EmptyDict
    /\ tfidf_vectorizer = NotFitted

\* datetime.now().isoformat(): a str, whatever the time of the call
analysis_timestamp == "datetime.now().isoformat()"

\* analyze up to its first await: the report skeleton and the three tasks
CreateTasks ==
    /\ pc = "start"
    /\ analysis_results' = [channel_id |-> channel_id,
                            analysis_timestamp |-> analysis_timestamp,
                            content_analysis |-> EmptyDict,
                            temporal_analysis |-> EmptyDict,
                            network_analysis |-> EmptyDict,
                            relationship_summary |-> EmptyDict]
    /\ task' = [b \in Range(Branches) |-> NewTask]
    /\ pc' = "await_content"
    /\ UNCHANGED <<call, ret, channel_id, related_channels, posts, tfidf_vectorizer>>

BranchVarsUnchanged ==
    UNCHANGED <<pc, call, ret, channel_id, related_channels, posts, analysis_results,
                tfidf_vectorizer>>

\* the steps of a branch task; ran: the computations done since its last step
Fail(b, ran) ==
    task' = [task EXCEPT ![b] = [state |-> "failed", local |-> EmptyDict,
                                 result |-> EmptyDict, work |-> @.work \cup ran]]

Finish(b, value, ran) ==
    task' = [task EXCEPT ![b] = [state |-> "done", local |-> EmptyDict,
                                 result |-> value, work |-> @.work \cup ran]]

Suspend(b, at, local, ran) ==
    task' = [task EXCEPT ![b] = [state |-> at, local |-> local,
                                 result |-> EmptyDict, work |-> @.work \cup ran]]

\* _analyze_content_relationships: submits detect_duplicates to the pool
ContentStart ==
    /\ pc \notin {"start"}
    /\ task["content"].state = "created"
    /\ Suspend("content", "await_duplicates", EmptyDict, {})
    /\ BranchVarsUnchanged

\* ... resumes with the duplicates, compares with the related channels' posts,
\* and submits extract_topics when a post has text
ContentAfterDuplicatesStep ==
    /\ pc \notin {"start"}
    /\ task["content"].state = "await_duplicates"
    /\ \E r \in {ContentAfterDuplicatesOf[posts, related_channels,
                                           [sem |-> call.sem, config |-> call.config]]} :
       \E ran \in {{OnPool("detect_duplicates")} \cup r.loop_work} :
          IF r.raised THEN Fail("content", ran)
          ELSE IF r.all_texts # <<>>
               THEN Suspend("content", "await_topics",
                            [content_results |-> r.value, all_texts |-> r.all_texts], ran)
               ELSE Finish("content", r.value, ran)
    /\ BranchVarsUnchanged

\* ... the extract_topics job runs on a pool thread: it fits the analyzer's
\* vectorizer and its result waits for the coroutine
ExtractTopicsJobReturns ==
    /\ pc \notin {"start"}
    /\ task["content"].state = "await_topics"
    /\ \E local \in {task["content"].local} :
          Suspend("content", "topics_ready",
                  [content_results |-> local.content_results,
                   all_texts |-> local.all_texts,
                   topics |-> extract_topics(local.all_texts, DefaultNTopics)],
                  {OnPool("extract_topics")})
    /\ tfidf_vectorizer' = VectorizerAfterTopics(tfidf_vectorizer,
                                                 task["content"].local.all_texts,
                                                 DefaultNTopics)
    /\ UNCHANGED <<pc, call, ret, channel_id, related_channels, posts, analysis_results>>

\* ... the coroutine resumes with the topics and returns
ContentAfterTopics ==
    /\ pc \notin {"start"}
    /\ task["content"].state = "topics_ready"
    /\ Finish("content",
              [task["content"].local.content_results EXCEPT
                  !.topic_analysis = task["content"].local.topics],
              {})
    /\ BranchVarsUnchanged

\* the temporal branch goes on from related channel k: the next correlation
\* job, or the return
TemporalContinue(results, k, ran) ==
    \E i \in {NextWithPosts(related_channels, k)} :
        IF i = 0 THEN Finish("temporal", results, ran)
        ELSE Suspend("temporal", "await_correlation",
                     [temporal_results |-> results, index |-> i], ran)

\* _analyze_temporal_relationships: posting patterns, first correlation job
TemporalStartStep ==
    /\ pc \notin {"start"}
    /\ task["temporal"].state = "created"
    /\ \E r \in {TemporalStart(posts)} :
          IF r.raised THEN Fail("temporal", {OnLoop("_get_hourly_activity")})
          ELSE TemporalContinue(r.value, 1, {OnLoop("_get_hourly_activity"),
                                             OnLoop("_find_peak_hours")})
    /\ BranchVarsUnchanged

\* ... resumes with one correlation and goes on with the next related channel
TemporalAfterCorrelation ==
    /\ pc \notin {"start"}
    /\ task["temporal"].state = "await_correlation"
    /\ \E local \in {task["temporal"].local} :
       \E related_channel \in {related_channels[local.index]} :
       \E correlation \in {TimeCorrelationOf[posts, related_channel.posts]} :
          IF correlation.raised THEN Fail("temporal", {OnPool("calculate_time_correlation")})
          ELSE TemporalContinue(
                  [local.temporal_results EXCEPT
                      !.correlations =
                          Append(@, Update(correlation.value,
                                           [related_channel |->
                                               [id |-> related_channel.id,
                                                name |-> related_channel.name]]))],
                  local.index + 1,
                  {OnPool("calculate_time_correlation")})
    /\ BranchVarsUnchanged

\* _analyze_network_relationships: connections, graph, metrics job
NetworkStart ==
    /\ pc \notin {"start"}
    /\ task["network"].state = "created"
    /\ \E connections \in {NetworkConnections(channel_id, related_channels)} :
       \E graph \in {build_channel_network(connections)} :
          IF connections = <<>> THEN Finish("network", [metrics |-> _empty_metrics], {})
          ELSE IF graph.raised THEN Fail("network", {OnLoop("build_channel_network")})
          ELSE Suspend("network", "await_metrics", [graph |-> graph.value],
                       {OnLoop("build_channel_network")})
    /\ BranchVarsUnchanged

\* ... resumes with the metrics and submits detect_communities
NetworkAfterMetrics ==
    /\ pc \notin {"start"}
    /\ task["network"].state = "await_metrics"
    /\ \E nx \in NxOutcomes :
          Suspend("network", "await_communities",
                  [graph |-> task["network"].local.graph,
                   metrics |-> calculate_network_metrics(task["network"].local.graph,
                                                         channel_id, nx)],
                  {OnPool("calculate_network_metrics")})
    /\ BranchVarsUnchanged

\* ... resumes with the communities, computes graph_stats and returns
NetworkAfterCommunities ==
    /\ pc \notin {"start"}
    /\ task["network"].state = "await_communities"
    /\ \E local \in {task["network"].local} :
       \E stats \in {GraphStats(local.graph)} :
          IF stats.raised THEN Fail("network", {OnPool("detect_communities")})
          ELSE Finish("network", [metrics |-> local.metrics,
                                  communities |-> detect_communities(local.graph),
                                  graph_stats |-> stats.value],
                      {OnPool("detect_communities")})
    /\ BranchVarsUnchanged

AwaitPc(i) == IF i > Len(Branches) THEN "summary" ELSE "await_" \o Branches[i]

\* a loop that stores a marker of the error instead of {}
AwaitedEntryErrorMarker(t) ==
    IF t.state = "failed" THEN [error |-> "failed"] ELSE t.result

\* what the loop stores for an awaited task: its result, or {} when it raised
AwaitedEntry(t) == IF t.state = "failed" THEN EmptyDict ELSE t.result

\* a loop that leaves at the first task that raised
AfterAwaitStopOnFailure(i, t) ==
    IF t.state = "failed" THEN Len(Branches) + 1 ELSE i + 1

\* the task awaited after task i has been handled
AfterAwait(i, t) == i + 1

\* one iteration of the loop over tasks: await, store, go on
AwaitTask ==
    \E i \in 1..Len(Branches) :
        /\ pc = AwaitPc(i)
        /\ Settled(task[Branches[i]])
        /\ analysis_results' =
              [analysis_results EXCEPT ![Branches[i] \o "_analysis"] = AwaitedEntry(task[Branches[i]])]
        /\ pc' = AwaitPc(AfterAwait(i, task[Branches[i]]))
        /\ UNCHANGED <<call, ret, channel_id, related_channels, posts, task, tfidf_vectorizer>>

\* the summary step and the return
CreateSummary ==
    /\ pc = "summary"
    /\ \E summary \in {_create_relationship_summary(analysis_results)} :
          IF summary.raised
          THEN /\ pc' = "raised"
               /\ UNCHANGED <<analysis_results, ret>>
          ELSE /\ pc' = "returned"
               /\ analysis_results' = [analysis_results EXCEPT !.relationship_summary = summary.value]
               /\ ret' = analysis_results'
    /\ UNCHANGED <<call, channel_id, related_channels, posts, task, tfidf_vectorizer>>

Next ==
    \/ CreateTasks
    \/ ContentStart
    \/ ContentAfterDuplicatesStep
    \/ ExtractTopicsJobReturns
    \/ ContentAfterTopics
    \/ TemporalStartStep
    \/ TemporalAfterCorrelation
    \/ NetworkStart
    \/ NetworkAfterMetrics
    \/ NetworkAfterCommunities
    \/ AwaitTask
    \/ CreateSummary

Spec == Init /\ [][Next]_vars

\* the event loop runs every task that is ready, and every job handed to the
\* worker pool returns
SpecFair == Spec /\ WF_vars(Next)

\* the report key of a branch
ReportKey(b) == b \o "_analysis"

\* C1: in the returned report the entry of every branch that raised is the
\* empty mapping {}, and the entry of every branch that did not raise is
\* exactly the value that branch returned.
C1_FailedBranchEmptyOthersKept ==
    pc = "returned" =>
        \A b \in Range(Branches) :
            /\ task[b].state = "failed" => ret[ReportKey(b)] = EmptyDict
            /\ task[b].state = "done" => ret[ReportKey(b)] = task[b].result

\* a returned report whose network branch raised while the content and the
\* temporal branches returned non-empty results
C1_Witness ==
    /\ pc = "returned"
    /\ task["network"].state = "failed"
    /\ task["content"].state = "done"
    /\ task["temporal"].state = "done"
    /\ ret.network_analysis = EmptyDict
    /\ ret.content_analysis # EmptyDict
    /\ ret.temporal_analysis # EmptyDict

\* the call has returned a report with the four analysis keys and a filled
\* relationship_summary
ReturnedReport ==
    /\ pc = "returned"
    /\ {"content_analysis", "temporal_analysis", "network_analysis",
        "relationship_summary"} \subseteq DOMAIN ret
    /\ DOMAIN ret.relationship_summary =
          {"total_connections", "strong_connections", "connection_types",
           "confidence_score", "key_insights"}

\* C2: for every input and every combination of failing branches the call
\* never lets an exception out and ends by returning a report with
\* content_analysis, temporal_analysis, network_analysis and a filled
\* relationship_summary.
C2_AlwaysReturnsReport ==
    /\ [](pc # "raised")
    /\ <>ReturnedReport

\* a report returned although all three branches raised
C2_Witness ==
    /\ pc = "returned"
    /\ \A b \in Range(Branches) : task[b].state = "failed" /\ ret[ReportKey(b)] = EmptyDict
    /\ ret.relationship_summary.total_connections = 0

AllSettled == \A b \in Range(Branches) : Settled(task[b])

\* C3: when the summary is built and when analyze returns, every branch task
\* has finished (returned or raised); and once a branch has raised, the other
\* branches still run to completion and analyze returns with all of them
\* finished.
C3_SummaryAfterAllBranches ==
    /\ [](pc \in {"summary", "returned", "raised"} => AllSettled)
    /\ (pc # "start" /\ \E b \in Range(Branches) : task[b].state = "failed")
          ~> (pc = "returned" /\ AllSettled)

\* the summary is about to be built after the first awaited branch (content)
\* raised and the temporal branch ran through a correlation to its return
C3_Witness ==
    /\ pc = "summary"
    /\ task["content"].state = "failed"
    /\ task["temporal"].state = "done"
    /\ task["temporal"].result.correlations # <<>>
    /\ Settled(task["network"])

\* the related channels that carry a non-empty connection record have
\* distinct non-zero ids different from channel_id
DistinctConnectedIds ==
    LET connections == NetworkConnections(channel_id, related_channels)
    IN /\ \A i \in 1..Len(connections) :
            connections[i].target_id \notin {None, channel_id}
       /\ \A i, j \in 1..Len(connections) :
            i # j => connections[i].target_id # connections[j].target_id

\* C6: with k >= 1 connection records the network branch succeeds and the
\* summary reports total_connections = k, strong_connections = the number of
\* those with strength > 0.7 and connection_types = their count per type.
C6_SummaryCountsConnections ==
    LET connections == NetworkConnections(channel_id, related_channels)
        strong == {i \in 1..Len(connections) : connections[i].strength > (7 * Scale) \div 10}
        types == {connections[i].connection_type : i \in 1..Len(connections)}
    IN (pc = "returned" /\ Len(connections) >= 1 /\ DistinctConnectedIds) =>
          /\ task["network"].state = "done"
          /\ ret.relationship_summary.total_connections = Len(connections)
          /\ ret.relationship_summary.strong_connections = Cardinality(strong)
          /\ ret.relationship_summary.connection_types =
                [t \in types |->
                    Cardinality({i \in 1..Len(connections) : connections[i].connection_type = t})]

\* the CPU-bound computations of analyze: pairwise similarity, topic-model
\* fitting, centrality computation, community detection
CpuBound ==
    {"detect_duplicates", "calculate_text_similarity", "extract_topics",
     "calculate_network_metrics", "detect_communities"}

\* C14: every CPU-bound computation of analyze (each pairwise similarity
\* computation, those against the related channels' posts included, topic
\* fitting, centrality and community computation) runs on a worker-pool
\* thread, never on the event-loop thread.
C14_CpuBoundWorkOnWorkerPool ==
    pc # "start" =>
        \A b \in Range(Branches) : \A w \in task[b].work :
            w.what \in CpuBound => w.on = "pool"

(***************************************************************************)
(* Specification SpecTopics: extract_topics on bounded corpora             *)
(***************************************************************************)
TopicTexts == {<<>>, <<"alpha">>, <<"beta">>, <<"alpha", "beta">>, <<"!!!">>}

MaxTopicTexts == 3

MaxNTopics == 4

InitTopics ==
    /\ pc = "call"
    /\ call \in {[fn |-> "extract_topics", texts |-> ts, n_topics |-> n] :
                    ts \in SeqsUpTo(TopicTexts, MaxTopicTexts), n \in 1..MaxNTopics}
    /\ ret = NoCall
    /\ OrchIdle

ExtractTopicsReturns ==
    /\ pc = "call"
    /\ call.fn = "extract_topics"
    /\ ret' = extract_topics(call.texts, call.n_topics)
    /\ tfidf_vectorizer' = VectorizerAfterTopics(tfidf_vectorizer, call.texts, call.n_topics)
    /\ pc' = "ret"
    /\ UNCHANGED <<call, channel_id, related_channels, posts, task, analysis_results>>

NextTopics == ExtractTopicsReturns

SpecTopics == InitTopics /\ [][NextTopics]_vars

\* C9: when len(texts) >= n_topics, extract_topics returns at most n_topics
\* topics and a topic_distribution with exactly one row per input text, also
\* when some texts are empty strings or share no vocabulary.
C9_OneDistributionRowPerText ==
    (pc = "ret" /\ Len(call.texts) >= call.n_topics)
        => /\ Len(ret.topics) <= call.n_topics
           /\ Len(ret.topic_distribution) = Len(call.texts)

\* C21: extract_topics(texts, n) returns {topics: [], topic_distribution: []}
\* without raising whenever texts is empty or holds fewer than n texts.
C21_TooFewTextsGiveNoTopics ==
    (pc = "ret" /\ Len(call.texts) < call.n_topics) => ret = EmptyTopics

\* the vectorizer is refitted exactly by the calls that return topics, and
\* then holds the terms that occur in at least two of the texts
VectorizerFittedWithTopics ==
    pc = "ret" =>
        /\ tfidf_vectorizer.fitted <=> ret # EmptyTopics
        /\ tfidf_vectorizer.fitted =>
              /\ tfidf_vectorizer.vocabulary_ # <<>>
              /\ \A k \in 1..Len(tfidf_vectorizer.vocabulary_) :
                    DocFreq(tfidf_vectorizer.vocabulary_[k], call.texts) >= TfidfMinDf

\* fewer texts than topics, yet a corpus the vectorizer can fit: two of the
\* three texts share a word
C21_Witness ==
    /\ pc = "ret"
    /\ Len(call.texts) = MaxTopicTexts
    /\ Len(call.texts) < call.n_topics
    /\ ~TfidfFitFails(call.texts)
    /\ ret = EmptyTopics

(***************************************************************************)
(* Specification SpecNet: build_channel_network, then the metrics and the  *)
(* communities of the graph it returns                                     *)
(***************************************************************************)
NetNodes == 1..4

\* records without a 'connection_type' key (tuples of a connection query)
UntypedConnections ==
    {[source_id |-> u, target_id |-> v, strength |-> w] :
        u \in NetNodes, v \in NetNodes,
        w \in {(5 * Scale) \div 10, (6 * Scale) \div 10}}

\* records as the tests and get_connections give them
TypedConnections ==
    {[source_id |-> u, target_id |-> v, strength |-> (8 * Scale) \div 10,
      connection_type |-> "content_similarity"] : u \in {None, 1}, v \in {None, 2}}

MaxConnections == 3

ConnectionLists ==
    SeqsUpTo({c \in UntypedConnections : c.source_id < c.target_id}, MaxConnections)
        \cup SeqsUpTo(TypedConnections, MaxConnections)

InitNet ==
    /\ pc = "call"
    /\ call \in {[fn |-> "build_channel_network", connections |-> cs] :
                    cs \in ConnectionLists}
    /\ ret = NoCall
    /\ OrchIdle

BuildChannelNetworkReturns ==
    /\ pc = "call"
    /\ call.fn = "build_channel_network"
    /\ ret' = build_channel_network(call.connections)
    /\ pc' = "built"
    /\ UNCHANGED <<call, orchVars>>

DetectCommunitiesReturns ==
    /\ pc = "built"
    /\ ~ret.raised
    /\ ret' = [raised |-> FALSE, graph |-> ret.value,
               value |-> detect_communities(ret.value)]
    /\ pc' = "communities"
    /\ UNCHANGED <<call, orchVars>>

CalculateNetworkMetricsReturns ==
    /\ pc = "built"
    /\ ~ret.raised
    /\ \E n \in NetNodes, nx \in NxOutcomes :
        ret' = [raised |-> FALSE, graph |-> ret.value, node |-> n, nx |-> nx,
                value |-> calculate_network_metrics(ret.value, n, nx)]
    /\ pc' = "metrics"
    /\ UNCHANGED <<call, orchVars>>

NextNet ==
    \/ BuildChannelNetworkReturns
    \/ DetectCommunitiesReturns
    \/ CalculateNetworkMetricsReturns

SpecNet == InitNet /\ [][NextNet]_vars

\* the unordered endpoint pairs of the records with both endpoints present
EndpointPairs(connections) ==
    {{connections[i].source_id, connections[i].target_id} :
        i \in {j \in 1..Len(connections) :
                connections[j].source_id # None /\ connections[j].target_id # None}}

\* C5: for connection records that each carry source_id, target_id, strength
\* and connection_type, build_channel_network returns without raising a graph
\* whose nodes are exactly the endpoints and whose edges are exactly the
\* unordered endpoint pairs, each with the record's weight and connection_type.
C5_BuildGraphFromTypedRecords ==
    (pc = "built" /\ \A i \in 1..Len(call.connections) :
                        /\ DOMAIN call.connections[i]
                              = {"source_id", "target_id", "strength", "connection_type"}
                        /\ call.connections[i].source_id # None
                        /\ call.connections[i].target_id # None)
        => /\ ~ret.raised
           /\ Range(ret.value.nodes) = UNION EndpointPairs(call.connections)
           /\ DOMAIN ret.value.attr = EndpointPairs(call.connections)
           /\ \A i \in 1..Len(call.connections) :
                LET c == call.connections[i]
                    a == ret.value.attr[{c.source_id, c.target_id}]
                IN a.weight = c.strength /\ a.connection_type = c.connection_type

\* strong path: a path made only of edges of weight > 0.5
RECURSIVE StrongReach(_, _)
StrongReach(graph, seen) ==
    LET more == {n \in Range(graph.nodes) :
                    \E m \in seen : /\ HasEdge(graph, m, n)
                                    /\ EdgeWeight(graph, m, n) > (5 * Scale) \div 10}
    IN IF more \subseteq seen THEN seen ELSE StrongReach(graph, seen \cup more)

\* C7: detect_communities places two nodes in the same community iff a path of
\* edges of weight > 0.5 connects them, whatever the node order; every node is
\* in exactly one community.
C7_CommunitiesAreStrongComponents ==
    pc = "communities" =>
        LET graph == ret.graph
            communities == ret.value.communities
        IN /\ \A n \in Range(graph.nodes) :
                \E i \in 1..Len(communities) :
                    /\ n \in communities[i]
                    /\ communities[i] = StrongReach(graph, {n})
                    /\ \A j \in 1..Len(communities) : n \in communities[j] => j = i
           /\ \A i \in 1..Len(communities) : communities[i] \subseteq Range(graph.nodes)

\* two communities: one holds two nodes that no edge joins directly, and an
\* edge of weight exactly 0.5 runs between the two communities
C7_Witness ==
    /\ pc = "communities"
    /\ Len(ret.value.communities) = 2
    /\ \E i \in 1..2 : \E m, n \in ret.value.communities[i] :
            m # n /\ ~HasEdge(ret.graph, m, n)
    /\ \E e \in DOMAIN ret.graph.attr :
        /\ Get(ret.graph.attr[e], "weight", 0) = (5 * Scale) \div 10
        /\ \A i \in 1..2 : ~(e \subseteq ret.value.communities[i])

\* C20: calculate_network_metrics on a graph that does not contain channel_id
\* (the empty graph included) returns the all-zero report: degree 0, every
\* centrality, pagerank and clustering coefficient 0.0, no neighbours, no
\* connection types, and zero strong and total connections.
C20_AbsentChannelGetsZeroMetrics ==
    (pc = "metrics" /\ ret.node \notin Range(ret.graph.nodes)) =>
        /\ DOMAIN ret.value =
              {"degree", "weighted_degree", "degree_centrality", "betweenness_centrality",
               "closeness_centrality", "eigenvector_centrality", "pagerank",
               "clustering_coefficient", "neighbors_count", "neighbors",
               "connection_types", "strong_connections", "total_connections"}
        /\ \A k \in DOMAIN ret.value \ {"neighbors", "connection_types"} : ret.value[k] = 0
        /\ ret.value.neighbors = <<>>
        /\ DOMAIN ret.value.connection_types = {}

\* for a channel of a graph with more than one node the report has the same
\* keys as the all-zero report, and an exception among the centrality calls
\* zeroes the five centrality scores, degree centrality included
CentralityScoresOfANode ==
    (pc = "metrics" /\ ret.node \in Range(ret.graph.nodes)
        /\ Len(ret.graph.nodes) > 1) =>
        /\ DOMAIN ret.value = DOMAIN _empty_metrics
        /\ ret.value.pagerank = ret.nx.pagerank
        /\ ret.nx.raised =>
              /\ ret.value.degree_centrality = 0
              /\ ret.value.pagerank = 0
              /\ ret.value.degree >= 1

\* a graph with edges that lacks the channel asked for
C20_Witness ==
    /\ pc = "metrics"
    /\ ret.node \notin Range(ret.graph.nodes)
    /\ DOMAIN ret.graph.attr # {}
    /\ ret.value.degree = 0

\* the edges with both endpoints inside one community
InternalEdges(graph, communities) ==
    {e \in DOMAIN graph.attr : \E i \in 1..Len(communities) : e \subseteq communities[i]}

\* the modularity is 0.0 for a graph without edges and otherwise the fraction
\* of edges internal to some community, up to the rounding of the float sum
\* (less than 2^-40)
ModularityNearInternalEdgeFraction ==
    pc = "communities" =>
        LET graph == ret.graph
            total_edges == Cardinality(DOMAIN graph.attr)
        IN /\ total_edges = 0 => ret.value.modularity = FloatZero
           /\ total_edges > 0 =>
                FloatNear(ret.value.modularity,
                          FloatDiv(Cardinality(InternalEdges(graph, ret.value.communities)),
                                   total_edges))

\* C18: the modularity reported by detect_communities is the sum over the
\* communities of (edges inside the community) / (edges of the graph), that
\* is the fraction of edges internal to some community; it is 0.0 for a graph
\* without edges and always lies in [0,1].
C18_ModularityIsInternalEdgeFraction ==
    pc = "communities" =>
        /\ ModularityNearInternalEdgeFraction
        /\ FloatLeq(FloatZero, ret.value.modularity)
        /\ FloatLeq(ret.value.modularity, FloatOne)

\* on the graphs of at most four edges no share is rounded so that the sum
\* passes 1.0: the modularity lies in [0,1]
SmallGraphModularityInUnitInterval ==
    (pc = "communities" /\ Cardinality(DOMAIN ret.graph.attr) <= 4) =>
        FloatLeq(ret.value.modularity, FloatOne)

\* two communities with an edge inside each, and an edge between them
TwoCommunitiesAndABridge ==
    /\ pc = "communities"
    /\ ret.value.community_count = 2
    /\ \A i \in 1..2 : SubgraphEdges(ret.graph, ret.value.communities[i]) # {}
    /\ InternalEdges(ret.graph, ret.value.communities) # DOMAIN ret.graph.attr
    /\ ret.value.modularity # FloatZero /\ ~FloatLeq(FloatOne, ret.value.modularity)

(***************************************************************************)
(* Specification SpecModularity: the communities of graphs made of chains  *)
(* of strong edges, which build_channel_network builds chain after chain   *)
(***************************************************************************)
MaxChains == 4

\* the number of edges of a chain
ChainSizes == 1..4

RECURSIVE ChainStarts(_, _)
\* the first node of chain c
ChainStarts(sizes, c) ==
    IF c = 1 THEN 1 ELSE ChainStarts(sizes, c - 1) + sizes[c - 1] + 1

\* the records of chain c: strength 0.6 from each node to the next
ChainRecords(sizes, c) ==
    [k \in 1..sizes[c] |->
        [source_id |-> ChainStarts(sizes, c) + k - 1,
         target_id |-> ChainStarts(sizes, c) + k,
         strength |-> (6 * Scale) \div 10]]

\* records of strength 0.5 from the last node of each chain to the first node
\* of the next one
BridgeRecords(sizes) ==
    [c \in 1..(Len(sizes) - 1) |->
        [source_id |-> ChainStarts(sizes, c + 1) - 1,
         target_id |-> ChainStarts(sizes, c + 1),
         strength |-> (5 * Scale) \div 10]]

RECURSIVE ChainConnections(_, _)
ChainConnections(sizes, c) ==
    IF c > Len(sizes) THEN <<>>
    ELSE ChainRecords(sizes, c) \o ChainConnections(sizes, c + 1)

InitModularity ==
    /\ pc = "call"
    /\ call \in {[fn |-> "build_channel_network",
                  connections |-> ChainConnections(sizes, 1)
                                    \o (IF bridged THEN BridgeRecords(sizes) ELSE <<>>)] :
                    sizes \in SeqsUpTo(ChainSizes, MaxChains), bridged \in BOOLEAN}
    /\ ret = NoCall
    /\ OrchIdle

NextModularity ==
    \/ BuildChannelNetworkReturns
    \/ DetectCommunitiesReturns

SpecModularity == InitModularity /\ [][NextModularity]_vars

\* every record is an edge of its own, and every chain is a community of its
\* own, in the order the chains were given
ChainsAreTheCommunities ==
    pc = "communities" =>
        /\ Cardinality(DOMAIN ret.graph.attr) = Len(call.connections)
        /\ \A i \in 1..ret.value.community_count :
              Cardinality(SubgraphEdges(ret.graph, ret.value.communities[i]))
                  = Cardinality(ret.value.communities[i]) - 1
        /\ \A i \in 1..(ret.value.community_count - 1) :
              \A m \in ret.value.communities[i], n \in ret.value.communities[i + 1] : m < n

(***************************************************************************)
(* Specification SpecSim: calculate_text_similarity on bounded texts       *)
(***************************************************************************)
InitSim ==
    /\ pc = "call"
    /\ call \in {[fn |-> "calculate_text_similarity", text1 |-> t1, text2 |-> t2, sem |-> s] :
                    t1 \in Texts, t2 \in PlainTexts, s \in SemanticModels}
    /\ ret = NoCall
    /\ OrchIdle

SimilarityReturns ==
    /\ pc = "call"
    /\ call.fn = "calculate_text_similarity"
    /\ ret' = calculate_text_similarity(call.text1, call.text2, call.sem)
    /\ pc' = "ret"
    /\ UNCHANGED <<call, orchVars>>

NextSim == SimilarityReturns

SpecSim == InitSim /\ [][NextSim]_vars

\* C4: calculate_text_similarity(t, t)['overall'] == 1.0 for every non-empty
\* text t (all three sub-scores are 1 for identical texts, with or without an
\* embedding model).
C4_SelfSimilarityIsOne ==
    (pc = "ret" /\ call.text1 = call.text2 /\ call.text1 # <<>>)
        => (~ret.raised /\ ret.value.overall = Scale)

\* C19: calculate_text_similarity(t1, t2) returns the same four scores
\* (tfidf, semantic, lexical, overall) as calculate_text_similarity(t2, t1)
\* for all pairs of texts, including pairs where one text is empty.
C19_SimilarityIsSymmetric ==
    pc = "ret" => ret = calculate_text_similarity(call.text2, call.text1, call.sem)

\* two texts of different lengths that share a word, scored with the
\* embedding model loaded
C19_Witness ==
    /\ pc = "ret"
    /\ ~ret.raised
    /\ call.sem.available
    /\ Len(_clean_text(call.text1)) > Len(_clean_text(call.text2))
    /\ 0 < ret.value.lexical /\ ret.value.lexical < Scale
    /\ ret.value.overall > 0

(***************************************************************************)
(* Specification SpecDup: detect_duplicates on bounded posts               *)
(***************************************************************************)
DupTexts == {<<>>, <<"alpha">>, <<"beta">>, <<"alpha", "beta">>}

MaxDupPosts == 3

\* duplicate_threshold: the default, and values at and below the scores that
\* texts get without an embedding model (0.2 identical, 0.1 half shared, 0.0)
DupThresholds == {DuplicateThreshold, (5 * Scale) \div 10, Scale \div 10, 0}

DupPosts ==
    {[i \in 1..Len(ts) |-> [id |-> i, text |-> ts[i], published_at |-> 600]] :
        ts \in SeqsUpTo(DupTexts, MaxDupPosts)}

InitDup ==
    /\ pc = "call"
    /\ call \in {[fn |-> "detect_duplicates", posts |-> ps, sem |-> m,
                  config |-> [duplicate_threshold |-> t]] :
                    ps \in DupPosts, m \in SemanticModels, t \in DupThresholds}
    /\ ret = NoCall
    /\ OrchIdle

DetectDuplicatesReturns ==
    /\ pc = "call"
    /\ call.fn = "detect_duplicates"
    /\ \E r \in {detect_duplicates(call.posts, call.sem, call.config)} : ret' = r
    /\ pc' = "ret"
    /\ UNCHANGED <<call, orchVars>>

NextDup == DetectDuplicatesReturns

SpecDup == InitDup /\ [][NextDup]_vars

\* the index pairs i < j whose 'overall' is strictly above the threshold
DuplicatePairs(ps, sem, config) ==
    {p \in (1..Len(ps)) \X (1..Len(ps)) :
        /\ p[1] < p[2]
        /\ calculate_text_similarity(ps[p[1]].text, ps[p[2]].text, sem).value.overall
              > config.duplicate_threshold}

\* C11: detect_duplicates reports exactly the index pairs i < j whose 'overall'
\* is strictly greater than duplicate_threshold, each once, never a post with
\* itself and never a pair in both orders, in ascending (i, j) order, with
\* post1_id and post2_id the ids of posts i and j.
C11_DuplicatesAreThePairsAboveThreshold ==
    pc = "ret" =>
        LET reported == [k \in 1..Len(ret.value) |->
                            <<ret.value[k].post1_id, ret.value[k].post2_id>>]
        IN /\ ~ret.raised
           /\ Range(reported) = DuplicatePairs(call.posts, call.sem, call.config)
           /\ \A k \in 1..(Len(reported) - 1) :
                \/ reported[k][1] < reported[k + 1][1]
                \/ /\ reported[k][1] = reported[k + 1][1]
                   /\ reported[k][2] < reported[k + 1][2]

\* three posts of which two pairs are reported and one pair, scoring exactly
\* the threshold or less, is not
C11_Witness ==
    /\ pc = "ret"
    /\ Len(call.posts) = 3
    /\ Len(ret.value) = 2
    /\ \E i, j \in 1..3 :
        /\ i < j
        /\ calculate_text_similarity(call.posts[i].text, call.posts[j].text,
                                     call.sem).value.overall = call.config.duplicate_threshold

(***************************************************************************)
(* Specification SpecSummary: _create_relationship_summary on bounded      *)
(* branch results                                                          *)
(***************************************************************************)
\* duplicate_rate = duplicates / posts: pairs are counted, so it can pass 1
DuplicateRates ==
    {0, (5 * Scale) \div 100, Scale \div 10, (3 * Scale) \div 10, (5 * Scale) \div 10, Scale,
     (15 * Scale) \div 10}

\* hourly_correlation is a Pearson coefficient, in [-1, 1]
HourlyCorrelations == {-Scale, 0, (6 * Scale) \div 10, (7 * Scale) \div 10, Scale}

\* pagerank is a probability
Pageranks == {0, (5 * Scale) \div 100, Scale \div 10, (5 * Scale) \div 10}

MaxCorrelations == 2

ContentResults ==
    {EmptyDict} \cup {[duplicate_analysis |-> [duplicate_rate |-> r]] : r \in DuplicateRates}

TemporalResults ==
    {EmptyDict}
        \cup {[correlations |-> cs] :
                cs \in SeqsUpTo({[hourly_correlation |-> h] : h \in HourlyCorrelations},
                                MaxCorrelations)}

NetworkResults ==
    {EmptyDict}
        \cup {[metrics |-> [_empty_metrics EXCEPT !.pagerank = p,
                                                  !.total_connections = IF p > 0 THEN 2 ELSE 0,
                                                  !.strong_connections = IF p > 0 THEN 1 ELSE 0]] :
                p \in Pageranks}

InitSummary ==
    /\ pc = "call"
    /\ call \in {[fn |-> "_create_relationship_summary",
                  results |-> [channel_id |-> 1, content_analysis |-> c,
                               temporal_analysis |-> t, network_analysis |-> n,
                               relationship_summary |-> EmptyDict]] :
                    c \in ContentResults, t \in TemporalResults, n \in NetworkResults}
    /\ ret = NoCall
    /\ OrchIdle

SummaryReturns ==
    /\ pc = "call"
    /\ call.fn = "_create_relationship_summary"
    /\ \E r \in {_create_relationship_summary(call.results)} : ret' = r
    /\ pc' = "ret"
    /\ UNCHANGED <<call, orchVars>>

NextSummary == SummaryReturns

SpecSummary == InitSummary /\ [][NextSummary]_vars

\* C12: confidence_score lies in [0,1] for every duplicate_rate (also above
\* 1), every set of correlations and every pagerank.
C12_ConfidenceScoreInUnitInterval ==
    pc = "ret" =>
        /\ ~ret.raised
        /\ ret.value.confidence_score >= 0
        /\ ret.value.confidence_score <= Scale

\* a duplicate_rate above 1 together with a strong correlation and a pagerank
\* whose tenfold passes 1
C12_Witness ==
    /\ pc = "ret"
    /\ call.results.content_analysis # EmptyDict
    /\ call.results.content_analysis.duplicate_analysis.duplicate_rate > Scale
    /\ call.results.temporal_analysis # EmptyDict
    /\ \E i \in 1..Len(call.results.temporal_analysis.correlations) :
            call.results.temporal_analysis.correlations[i].hourly_correlation = Scale
    /\ call.results.network_analysis # EmptyDict
    /\ call.results.network_analysis.metrics.pagerank * 10 > Scale
    /\ ret.value.confidence_score = Scale

\* the inputs of the three factors, read off the branch results
RateOf(results) ==
    IF results.content_analysis = EmptyDict THEN 0
    ELSE results.content_analysis.duplicate_analysis.duplicate_rate

StrongOf(results) ==
    IF results.temporal_analysis = EmptyDict THEN <<>>
    ELSE SelectSeq([i \in 1..Len(results.temporal_analysis.correlations) |->
                        results.temporal_analysis.correlations[i].hourly_correlation],
                   LAMBDA h : 10 * h > 6 * Scale)

PagerankOf(results) ==
    IF results.network_analysis = EmptyDict THEN 0
    ELSE results.network_analysis.metrics.pagerank

\* C13: confidence_score is the arithmetic mean of exactly the applicable
\* factors: min(2 * duplicate_rate, 1) when duplicate_rate > 0, the mean of
\* the hourly_correlation values above 0.6 when there is one, and
\* min(10 * pagerank, 1) when pagerank > 0; it is 0.0 when none applies.
C13_ConfidenceIsMeanOfApplicableFactors ==
    pc = "ret" =>
        LET rate == RateOf(call.results)
            strong == StrongOf(call.results)
            pagerank == PagerankOf(call.results)
            f1 == IF 2 * rate < Scale THEN 2 * rate ELSE Scale
            f2 == IF strong = <<>> THEN 0 ELSE SumSeq(strong) \div Len(strong)
            f3 == IF 10 * pagerank < Scale THEN 10 * pagerank ELSE Scale
            n == (IF rate > 0 THEN 1 ELSE 0) + (IF strong # <<>> THEN 1 ELSE 0)
                    + (IF pagerank > 0 THEN 1 ELSE 0)
            total == (IF rate > 0 THEN f1 ELSE 0) + (IF strong # <<>> THEN f2 ELSE 0)
                        + (IF pagerank > 0 THEN f3 ELSE 0)
        IN ret.value.confidence_score = IF n = 0 THEN 0 ELSE total \div n

\* all three factors apply, with different values, next to a correlation of
\* exactly 0.6 that is left out of the mean
C13_Witness ==
    /\ pc = "ret"
    /\ RateOf(call.results) = (3 * Scale) \div 10
    /\ Len(StrongOf(call.results)) = 1
    /\ Len(call.results.temporal_analysis.correlations) = 2
    /\ \E i \in 1..2 :
            call.results.temporal_analysis.correlations[i].hourly_correlation = (6 * Scale) \div 10
    /\ PagerankOf(call.results) = (5 * Scale) \div 100
    /\ ret.value.confidence_score > 0
    /\ ret.value.confidence_score < Scale

\* C27: key_insights holds the duplicate-content insight iff duplicate_rate >
\* 0.1 and the strong-correlation insight, with the number of correlations
\* whose hourly_correlation is above 0.6, iff there is such a correlation; the
\* duplicate insight comes first and there is no other entry.
C27_KeyInsightsByThresholds ==
    pc = "ret" =>
        LET rate == RateOf(call.results)
            strong == StrongOf(call.results)
            insights == ret.value.key_insights
            Kinds == [i \in 1..Len(insights) |-> insights[i].insight]
        IN /\ Kinds = (IF 10 * rate > Scale THEN <<"duplicates">> ELSE <<>>)
                        \o (IF Len(strong) >= 1 THEN <<"time_correlations">> ELSE <<>>)
           /\ \A i \in 1..Len(insights) :
                /\ insights[i].insight = "duplicates" => insights[i].duplicate_rate = rate
                /\ insights[i].insight = "time_correlations" => insights[i].count = Len(strong)

\* both insights, for two strong correlations
C27_Witness ==
    /\ pc = "ret"
    /\ 10 * RateOf(call.results) > Scale
    /\ Len(StrongOf(call.results)) = 2
    /\ Len(ret.value.key_insights) = 2
    /\ ret.value.key_insights[1].insight = "duplicates"
    /\ ret.value.key_insights[2].count = 2

\* a duplicate_rate of exactly 0.1 and a correlation of exactly 0.6 give no
\* insight
BoundaryValuesGiveNoInsight ==
    /\ pc = "ret"
    /\ RateOf(call.results) = Scale \div 10
    /\ call.results.temporal_analysis =
            [correlations |-> <<[hourly_correlation |-> (6 * Scale) \div 10]>>]
    => ret.value.key_insights = <<>>

\* the duplicate_rate the summary reads is the number of duplicate pairs over
\* max(1, number of posts of the main channel)
DuplicateRateIsPairsPerPost ==
    /\ pc = "returned"
    /\ "duplicate_analysis" \in DOMAIN analysis_results.content_analysis
    => analysis_results.content_analysis.duplicate_analysis.duplicate_rate
            = (Scale * analysis_results.content_analysis.duplicate_analysis.total_duplicates)
                    \div (IF Len(posts) >= 1 THEN Len(posts) ELSE 1)

(***************************************************************************)
(* Specification SpecShared: two extract_topics jobs of two concurrent     *)
(* analyze calls on one engine.  Each runs in a thread of the engine's     *)
(* pool; both use the one TfidfVectorizer of the engine's ContentAnalyzer. *)
(* fit_transform stores the fitted vocabulary in the vectorizer;           *)
(* get_feature_names_out reads it back after the LDA fit.                  *)
(***************************************************************************)
\* extract_topics from get_feature_names_out on: every topic has one weight
\* per column of tfidf_matrix, and its (at most ten) top columns are looked up
\* in feature_names; a column beyond feature_names raises IndexError, caught.
\* keywords is kept as the set of the words (their order is the LDA's).
TopicsKeywords(n_topics, n_docs, n_features, feature_names) ==
    IF n_features > Len(feature_names) THEN EmptyTopics
    ELSE [topics |-> [k \in 1..n_topics |->
                        [id |-> k - 1,
                         keywords |-> {feature_names[i] : i \in 1..n_features}]],
          topic_distribution |-> [d \in 1..n_docs |-> n_topics]]

\* extract_topics with no other call on the engine
TopicsAlone(texts, n_topics) ==
    LET fit == TopicsFit(texts, n_topics)
    IN IF fit.done THEN fit.value
       ELSE TopicsKeywords(n_topics, fit.n_docs, fit.n_features, fit.vocabulary_)

SharedTexts == {<<"alpha">>, <<"beta">>, <<"alpha", "beta">>}

MaxJobTopics == 2

Jobs == {1, 2}

SharedCalls ==
    {[fn |-> "extract_topics", texts |-> ts, n_topics |-> n] :
        ts \in SeqsUpTo(SharedTexts, MaxTopicTexts), n \in 1..MaxJobTopics}

InitShared ==
    /\ pc = "running"
    /\ call \in [Jobs -> SharedCalls]
    /\ ret = [j \in Jobs |-> NoCall]
    /\ task = [j \in Jobs |-> [at |-> "start"]]
    /\ tfidf_vectorizer = NotFitted
    /\ channel_id = None
    /\ related_channels = <<>>
    /\ posts = <<>>
    /\ analysis_results = EmptyDict

SharedIdle == UNCHANGED <<pc, call, channel_id, related_channels, posts, analysis_results>>

\* job j: a fit that fails, or too few texts: the early empty result
TopicsReturnEarly(j) ==
    /\ pc = "running"
    /\ task[j].at = "start"
    /\ \E fit \in {TopicsFit(call[j].texts, call[j].n_topics)} :
          /\ fit.done
          /\ ret' = [ret EXCEPT ![j] = fit.value]
    /\ task' = [task EXCEPT ![j] = [at |-> "done"]]
    /\ SharedIdle
    /\ UNCHANGED tfidf_vectorizer

\* job j: self.tfidf_vectorizer.fit_transform(clean_texts)
TopicsFitTransform(j) ==
    /\ pc = "running"
    /\ task[j].at = "start"
    /\ \E fit \in {TopicsFit(call[j].texts, call[j].n_topics)} :
          /\ ~fit.done
          /\ tfidf_vectorizer' = [fitted |-> TRUE, vocabulary_ |-> fit.vocabulary_]
          /\ task' = [task EXCEPT ![j] = [at |-> "lda", n_docs |-> fit.n_docs,
                                          n_features |-> fit.n_features]]
    /\ SharedIdle
    /\ UNCHANGED ret

\* job j: self.tfidf_vectorizer.get_feature_names_out() and the topics
TopicsGetFeatureNames(j) ==
    /\ pc = "running"
    /\ task[j].at = "lda"
    /\ ret' = [ret EXCEPT ![j] =
                  TopicsKeywords(call[j].n_topics, task[j].n_docs, task[j].n_features,
                                 tfidf_vectorizer.vocabulary_)]
    /\ task' = [task EXCEPT ![j] = [at |-> "done"]]
    /\ SharedIdle
    /\ UNCHANGED tfidf_vectorizer

\* both jobs are done
SharedDone ==
    /\ pc = "running"
    /\ \A j \in Jobs : task[j].at = "done"
    /\ pc' = "ret"
    /\ UNCHANGED <<call, ret, orchVars>>

NextShared ==
    \/ \E j \in Jobs : TopicsReturnEarly(j)
    \/ \E j \in Jobs : TopicsFitTransform(j)
    \/ \E j \in Jobs : TopicsGetFeatureNames(j)
    \/ SharedDone

SpecShared == InitShared /\ [][NextShared]_vars

\* C15: two analyze calls running concurrently on the same engine, their
\* worker-pool tasks interleaved in any order, each return the report they
\* would return when run alone: here, each of the two topic extractions
\* returns the topics it returns with no other call on the engine.
C15_ConcurrentCallsReturnTheirOwnReport ==
    pc = "ret" => \A j \in Jobs : ret[j] = TopicsAlone(call[j].texts, call[j].n_topics)

\* extract_topics is TopicsAlone without the keywords
TopicsAloneIsExtractTopics ==
    \A j \in Jobs :
        LET alone == TopicsAlone(call[j].texts, call[j].n_topics)
            whole == extract_topics(call[j].texts, call[j].n_topics)
        IN /\ Len(alone.topics) = Len(whole.topics)
           /\ \A k \in 1..Len(alone.topics) : alone.topics[k].id = whole.topics[k].id
           /\ alone.topic_distribution = whole.topic_distribution

(***************************************************************************)
(* Specification SpecJson: the Python types of the values in the results   *)
(* of calculate_time_correlation and detect_communities, the two worker    *)
(* results analyze stores in the report as they are.                       *)
(*                                                                         *)
(* A timestamp of the model stands for an ISO string or for a datetime     *)
(* (the analyzers accept both, isinstance(date, str)); call.dates is the   *)
(* type the caller's posts carry.                                          *)
(***************************************************************************)
DateTypes == {"str", "datetime"}

\* the type of post.get('published_at')
DateType(published_at, dates) ==
    IF published_at = None THEN "NoneType"
    ELSE IF published_at = BadTime THEN "str"
    ELSE dates

\* the types of the values reachable in a result of calculate_time_correlation:
\* post1_date and post2_date are the posts' own published_at values
TimeCorrelationTypes(result, dates) ==
    {"dict", "list", "float", "int"}
        \cup (IF "dominant_leader" \in DOMAIN result.sequence_analysis THEN {"str"} ELSE {})
        \cup {DateType(result.sync_details[i].post1_date, dates) :
                i \in 1..Len(result.sync_details)}
        \cup {DateType(result.sync_details[i].post2_date, dates) :
                i \in 1..Len(result.sync_details)}

\* the types of the values reachable in a result of detect_communities:
\* 'communities' maps each id to the set _expand_community built,
\* 'community_stats' holds list(nodes)
CommunitiesTypes(result) ==
    {"dict", "float", "int"}
        \cup (IF result.community_count > 0 THEN {"set", "list"} ELSE {})

\* what a nested mapping of primitive types is made of
JsonTypes == {"dict", "list", "float", "int", "str", "bool", "NoneType"}

InitJson ==
    /\ pc = "call"
    /\ call \in {[fn |-> "calculate_time_correlation", dates |-> d,
                  posts1 |-> PostsAt(t1, 0), posts2 |-> PostsAt(t2, 100)] :
                    d \in DateTypes, t1 \in SeqsUpTo(Times2, MaxPosts2),
                    t2 \in SeqsUpTo(Times2, MaxPosts2)}
               \cup {[fn |-> "detect_communities",
                      graph |-> build_channel_network(cs).value] :
                        cs \in SeqsUpTo({c \in UntypedConnections : c.source_id < c.target_id},
                                        MaxConnections)}
    /\ ret = NoCall
    /\ OrchIdle

TimeCorrelationTyped ==
    /\ pc = "call"
    /\ call.fn = "calculate_time_correlation"
    /\ \E r \in {calculate_time_correlation(call.posts1, call.posts2)} :
          ret' = [value |-> r.value, types |-> TimeCorrelationTypes(r.value, call.dates)]
    /\ pc' = "ret"
    /\ UNCHANGED <<call, orchVars>>

DetectCommunitiesTyped ==
    /\ pc = "call"
    /\ call.fn = "detect_communities"
    /\ \E r \in {detect_communities(call.graph)} :
          ret' = [value |-> r, types |-> CommunitiesTypes(r)]
    /\ pc' = "ret"
    /\ UNCHANGED <<call, orchVars>>

NextJson == TimeCorrelationTyped \/ DetectCommunitiesTyped

SpecJson == InitJson /\ [][NextJson]_vars

\* C16: every value reachable in the report is a number, string, boolean,
\* null, sequence or mapping of such values; no set, datetime or graph appears
\* in it, community membership and synchronized-post details included.
C16_ReportHoldsOnlyPrimitiveTypes ==
    pc = "ret" => ret.types \subseteq JsonTypes

(***************************************************************************)
(* Specification SpecPosts: TelegramDataCollector.get_channel_posts        *)
(*                                                                         *)
(* call.pending is what client.iter_messages still has to deliver in this  *)
(* attempt, call.message the message the loop body is working on,          *)
(* call.retried the number of nested calls made after a FloodWaitError.    *)
(* A post is kept as the number of its message.                            *)
(*                                                                         *)
(* pc is the await the coroutine is suspended at: "iterating" (the next    *)
(* message of async for), "rate_limiter" (rate_limiter.wait),              *)
(* "processing" (_process_message), "batch_sleep" (asyncio.sleep(1) after  *)
(* a full batch), "flood_sleep" (asyncio.sleep(e.seconds)); "ret" after    *)
(* the return, "raised" after an exception has left the call.  Nothing in  *)
(* the repository cancels the call.                                        *)
(***************************************************************************)
\* a message with text, a message without text, a message _process_message
\* raises on, an exception out of the iterator, a FloodWaitError out of it
MessageEvents == {"text", "no_text", "process_error", "iter_error", "flood_wait"}

MaxMessages == 3

\* the nested retries the interpreter's stack has room for: the code retries
\* without a limit (config.max_retries is never read), and under
\* sys.getrecursionlimit() of 1000 frames some 980 nested calls fit; the
\* model scales that number down
MaxRetries == 2

\* what iter_messages can deliver in a retry
RetryStreams == {<<>>, <<"text">>, <<"iter_error">>, <<"text", "iter_error">>,
                 <<"flood_wait">>}

InitPosts ==
    /\ pc = "iterating"
    /\ call \in {[fn |-> "get_channel_posts", pending |-> s, retried |-> 0,
                  delivered |-> 0, message |-> "none"] :
                    s \in SeqsUpTo(MessageEvents, MaxMessages)}
    /\ ret = NoCall
    /\ posts = <<>>
    /\ channel_id = None
    /\ related_channels = <<>>
    /\ task = NoTasks
    /\ analysis_results = EmptyDict
    /\ tfidf_vectorizer = NotFitted

PostsIdle == UNCHANGED <<channel_id, related_channels, task, analysis_results, tfidf_vectorizer>>

\* the iterator has delivered its next message
Delivered ==
    [call EXCEPT !.pending = Tail(@), !.delivered = @ + 1, !.message = Head(call.pending)]

\* the iterator has raised instead
IteratorRaised == [call EXCEPT !.pending = Tail(@)]

\* TelegramConfig.batch_size
BatchSize == 100

\* async for: the iterator delivers a message; await self.rate_limiter.wait()
NextMessage ==
    /\ pc = "iterating"
    /\ call.pending # <<>>
    /\ Head(call.pending) \in {"text", "no_text", "process_error"}
    /\ call' = Delivered
    /\ pc' = "rate_limiter"
    /\ UNCHANGED <<posts, ret>>
    /\ PostsIdle

\* rate_limiter.wait() returns; await self._process_message(message)
RateLimiterReturns ==
    /\ pc = "rate_limiter"
    /\ pc' = "processing"
    /\ UNCHANGED <<call, posts, ret>>
    /\ PostsIdle

\* _process_message returns post_data (None for a message without text); the
\* post is appended, and a full batch is followed by await asyncio.sleep(1)
ProcessMessage ==
    /\ pc = "processing"
    /\ call.message \in {"text", "no_text"}
    /\ posts' = IF call.message = "text" THEN Append(posts, call.delivered) ELSE posts
    /\ pc' = IF Len(posts') % BatchSize = 0 THEN "batch_sleep" ELSE "iterating"
    /\ call' = [call EXCEPT !.message = "none"]
    /\ UNCHANGED ret
    /\ PostsIdle

\* asyncio.sleep(1) returns
BatchSleepReturns ==
    /\ pc = "batch_sleep"
    /\ pc' = "iterating"
    /\ UNCHANGED <<call, posts, ret>>
    /\ PostsIdle

\* the iterator is exhausted: logger.info, return posts
IterationEnds ==
    /\ pc = "iterating"
    /\ call.pending = <<>>
    /\ ret' = [raised |-> FALSE, failed |-> FALSE, logged |-> "info", value |-> posts]
    /\ pc' = "ret"
    /\ UNCHANGED <<call, posts>>
    /\ PostsIdle

\* except Exception: the iterator or _process_message raised:
\* logger.error, return posts
ExceptException ==
    /\ \/ /\ pc = "iterating"
          /\ call.pending # <<>>
          /\ Head(call.pending) = "iter_error"
          /\ call' = IteratorRaised
       \/ /\ pc = "processing"
          /\ call.message = "process_error"
          /\ UNCHANGED call
    /\ ret' = [raised |-> FALSE, failed |-> TRUE, logged |-> "error", value |-> posts]
    /\ pc' = "ret"
    /\ UNCHANGED posts
    /\ PostsIdle

\* except FloodWaitError: logger.warning, await asyncio.sleep(e.seconds)
ExceptFloodWait ==
    /\ pc = "iterating"
    /\ call.pending # <<>>
    /\ Head(call.pending) = "flood_wait"
    /\ call' = IteratorRaised
    /\ pc' = "flood_sleep"
    /\ UNCHANGED <<posts, ret>>
    /\ PostsIdle

\* ... the sleep returns and get_channel_posts calls itself: the new call has
\* its own posts = [] and its result is what the first call returns
FloodSleepReturns ==
    /\ pc = "flood_sleep"
    /\ call.retried < MaxRetries
    /\ \E s \in RetryStreams :
          call' = [call EXCEPT !.pending = s, !.retried = @ + 1,
                               !.delivered = 0, !.message = "none"]
    /\ posts' = <<>>
    /\ pc' = "iterating"
    /\ UNCHANGED ret
    /\ PostsIdle

\* ... or the stack is exhausted.  Which frame no longer fits depends on how
\* deep the caller and the iterator are: either the nested call itself, made
\* inside the handler of every call below it, so that RecursionError leaves
\* the first call; or a call inside the nested call's try block, where
\* 'except Exception' catches it: logger.error, return posts (still empty)
RetryExhaustsStack ==
    /\ pc = "flood_sleep"
    /\ call.retried = MaxRetries
    /\ \/ /\ ret' = [raised |-> TRUE, failed |-> TRUE, logged |-> "warning", value |-> <<>>]
          /\ pc' = "raised"
       \/ /\ ret' = [raised |-> FALSE, failed |-> TRUE, logged |-> "error", value |-> <<>>]
          /\ pc' = "ret"
    /\ UNCHANGED <<call, posts>>
    /\ PostsIdle

NextPosts ==
    \/ NextMessage
    \/ RateLimiterReturns
    \/ ProcessMessage
    \/ BatchSleepReturns
    \/ IterationEnds
    \/ ExceptException
    \/ ExceptFloodWait
    \/ FloodSleepReturns
    \/ RetryExhaustsStack

SpecPosts == InitPosts /\ [][NextPosts]_vars

\* C17: get_channel_posts never raises to its caller, and any failure while
\* fetching posts, at any point of the iteration, is logged and converted to
\* an empty sequence of posts.
C17_FailureGivesEmptyPosts ==
    /\ pc # "raised"
    /\ pc = "ret" =>
          /\ ~ret.raised
          /\ ret.failed => (ret.logged = "error" /\ ret.value = <<>>)

(***************************************************************************)
(* Specification SpecEdges: build_channel_network on lists that name a     *)
(* node pair several times, in both directions                             *)
(***************************************************************************)
EdgeNodes == 1..3

EdgeStrengths == {(5 * Scale) \div 10, (8 * Scale) \div 10}

\* records without a 'connection_type' key
UntypedEdgeRecords ==
    {c \in [source_id : EdgeNodes, target_id : EdgeNodes, strength : EdgeStrengths] :
        c.source_id # c.target_id}

\* records with one: the pair 1 - 2 in both directions, of two types
TypedEdgeRecords ==
    {[source_id |-> u, target_id |-> 3 - u, strength |-> w, connection_type |-> t] :
        u \in 1..2, w \in EdgeStrengths, t \in {"content_similarity", "time_correlation"}}

InitEdges ==
    /\ pc = "call"
    /\ call \in {[fn |-> "build_channel_network", connections |-> cs] :
                    cs \in SeqsUpTo(UntypedEdgeRecords, MaxConnections)
                            \cup SeqsUpTo(TypedEdgeRecords, MaxConnections)}
    /\ ret = NoCall
    /\ OrchIdle

BuildEdgesReturns ==
    /\ pc = "call"
    /\ call.fn = "build_channel_network"
    /\ ret' = build_channel_network(call.connections)
    /\ pc' = "built"
    /\ UNCHANGED <<call, orchVars>>

NextEdges == BuildEdgesReturns

SpecEdges == InitEdges /\ [][NextEdges]_vars

\* the records of the list that name the unordered pair, in list order
RecordsOf(connections, pair) ==
    SelectSeq(connections, LAMBDA c : {c.source_id, c.target_id} = pair)

LastOf(s) == s[Len(s)]

\* the edges are the named pairs, and each carries what its last record says
EdgesFollowLastRecord(connections, graph) ==
    /\ DOMAIN graph.attr = EndpointPairs(connections)
    /\ \A pair \in DOMAIN graph.attr :
          LET last == LastOf(RecordsOf(connections, pair))
          IN /\ graph.attr[pair].weight = last.strength
             /\ graph.attr[pair].connection_type = Get(last, "connection_type", "unknown")

\* C22: after build_channel_network on any connection list, the graph has at
\* most one edge per unordered node pair, and when several records name the
\* same pair (in either direction) the edge's weight and connection_type are
\* those of the last such record in the list.
C22_LastRecordOfAPairWins ==
    pc = "built" => (~ret.raised /\ EdgesFollowLastRecord(call.connections, ret.value))

\* for records without a connection_type the last record of a pair does win,
\* and the type of every edge is 'unknown'
UntypedLastRecordWins ==
    (pc = "built" /\ \A i \in 1..Len(call.connections) :
                        "connection_type" \notin DOMAIN call.connections[i])
        => (~ret.raised /\ EdgesFollowLastRecord(call.connections, ret.value))

(***************************************************************************)
(* Specification SpecSeq: _analyze_posting_sequence on bounded posts; the  *)
(* times put channel-2 posts exactly 120 and 121 minutes from channel-1    *)
(* posts, on both sides                                                    *)
(***************************************************************************)
SeqTimes1 == {None, 600, 660}

SeqTimes2 == {None, 480, 601, 660, 720, 781}

InitSeq ==
    /\ pc = "call"
    /\ call \in {[fn |-> "_analyze_posting_sequence",
                  posts1 |-> PostsAt(t1, 0), posts2 |-> PostsAt(t2, 100)] :
                    t1 \in SeqsUpTo(SeqTimes1, MaxPosts2), t2 \in SeqsUpTo(SeqTimes2, MaxPosts2)}
    /\ ret = NoCall
    /\ OrchIdle

\* ret.lead_lag_analysis is the local list the result is computed from
PostingSequenceReturns ==
    /\ pc = "call"
    /\ call.fn = "_analyze_posting_sequence"
    /\ ret' = [lead_lag_analysis |-> LeadLagLoop(call.posts1, call.posts2),
               value |-> _analyze_posting_sequence(call.posts1, call.posts2)]
    /\ pc' = "ret"
    /\ UNCHANGED <<call, orchVars>>

NextSeq == PostingSequenceReturns

SpecSeq == InitSeq /\ [][NextSeq]_vars

\* the channel-2 posts within 120 minutes of post1: both posts have a time
NearPosts(post1, posts2) ==
    {j \in 1..Len(posts2) :
        /\ post1.published_at # None
        /\ posts2[j].published_at # None
        /\ Abs(post1.published_at - posts2[j].published_at) <= 120}

\* the channel-1 posts that have such a post, in list order
MatchedPosts(posts1, posts2) ==
    SelectSeq(posts1, LAMBDA post1 : NearPosts(post1, posts2) # {})

\* C23: _analyze_posting_sequence records at most one pair per channel-1 post:
\* the channel-2 post with the minimum absolute time difference among those
\* within 120 minutes (inclusive), with the signed difference post1_time -
\* post2_time of that same post; a channel-1 post with no channel-2 post within
\* 120 minutes contributes nothing, and when no channel-1 post contributes the
\* result is exactly {total_pairs: 0}.
C23_ClosestPostWithinWindow ==
    pc = "ret" =>
        LET matched == MatchedPosts(call.posts1, call.posts2)
            pairs == ret.lead_lag_analysis
        IN /\ Len(pairs) = Len(matched)
           /\ \A k \in 1..Len(matched) :
                \E j \in NearPosts(matched[k], call.posts2) :
                    /\ pairs[k].time_diff
                          = matched[k].published_at - call.posts2[j].published_at
                    /\ \A i \in NearPosts(matched[k], call.posts2) :
                          Abs(pairs[k].time_diff)
                              <= Abs(matched[k].published_at - call.posts2[i].published_at)
           /\ matched = <<>> => ret.value = [total_pairs |-> 0]
           /\ matched # <<>> => ret.value.total_pairs = Len(matched)

\* the same, for posts that all have a time
TimedPostsClosestWithinWindow ==
    (\A i \in 1..Len(call.posts1) : call.posts1[i].published_at # None)
        /\ (\A j \in 1..Len(call.posts2) : call.posts2[j].published_at # None)
        => C23_ClosestPostWithinWindow

\* C24: in every non-empty sequence_analysis, channel1_leads_count +
\* channel2_leads_count = total_pairs <= number of channel-1 posts; a pair
\* counts for channel 1 iff its signed difference is < 0 (a zero difference
\* counts for channel 2); dominant_leader is 'channel1' iff
\* channel1_leads_count is a strict majority of total_pairs, otherwise
\* 'channel2' (ties included).
C24_LeadCountsAndDominantLeader ==
    (pc = "ret" /\ ret.value.total_pairs > 0) =>
        LET pairs == ret.lead_lag_analysis
            s == ret.value
            negative == {k \in 1..Len(pairs) : pairs[k].time_diff < 0}
        IN /\ s.channel1_leads_count + s.channel2_leads_count = s.total_pairs
           /\ s.total_pairs = Len(pairs)
           /\ s.total_pairs <= Len(call.posts1)
           /\ s.channel1_leads_count = Cardinality(negative)
           /\ s.channel2_leads_count = Len(pairs) - Cardinality(negative)
           /\ s.dominant_leader \in {"channel1", "channel2"}
           /\ s.dominant_leader = "channel1" <=> 2 * s.channel1_leads_count > s.total_pairs

\* a tie: one pair led by channel 1, one pair of posts published in the same
\* minute, and channel 2 named the leader
C24_Witness ==
    /\ pc = "ret"
    /\ \A i \in 1..Len(call.posts1) : call.posts1[i].published_at # None
    /\ \A j \in 1..Len(call.posts2) : call.posts2[j].published_at # None
    /\ ret.value.total_pairs = 2
    /\ ret.value.channel1_leads_count = 1
    /\ \E k \in 1..2 : ret.lead_lag_analysis[k].time_diff = 0
    /\ ret.value.dominant_leader = "channel2"

(***************************************************************************)
(* Specification SpecScores: what detect_duplicates does with one pair of  *)
(* posts, for every combination of the three sub-scores on a grid that     *)
(* holds 0.8 and 0.95 and values on both sides of them                     *)
(***************************************************************************)
ScoreGrid ==
    {0, (5 * Scale) \div 10, (8 * Scale) \div 10, (9 * Scale) \div 10,
     (95 * Scale) \div 100, Scale}

\* duplicate_threshold: the default, 0.1 and 0.0
ScoreThresholds == {DuplicateThreshold, Scale \div 10, 0}

\* the plain mean of the three sub-scores
UnweightedOverall(tfidf_sim, semantic_sim, lexical_sim) ==
    (tfidf_sim + semantic_sim + lexical_sim) \div 3

\* overall_sim of calculate_text_similarity
WeightedOverall(tfidf_sim, semantic_sim, lexical_sim) ==
    (4 * tfidf_sim + 4 * semantic_sim + 2 * lexical_sim) \div 10

InitScores ==
    /\ pc = "call"
    /\ call \in {[fn |-> "detect_duplicates", tfidf |-> t, semantic |-> s, lexical |-> l,
                  config |-> [duplicate_threshold |-> th]] :
                    t \in ScoreGrid, s \in ScoreGrid, l \in ScoreGrid, th \in ScoreThresholds}
    /\ ret = NoCall
    /\ OrchIdle

\* the body of the loop of detect_duplicates for a pair with these sub-scores
ScoredPairReturns ==
    /\ pc = "call"
    /\ call.fn = "detect_duplicates"
    /\ LET similarity == [tfidf |-> call.tfidf, semantic |-> call.semantic,
                          lexical |-> call.lexical,
                          overall |-> WeightedOverall(call.tfidf, call.semantic, call.lexical)]
       IN ret' = IF similarity.overall > call.config.duplicate_threshold
                 THEN <<[similarity_metrics |-> similarity,
                         duplicate_type |-> _classify_duplicate_type(similarity)]>>
                 ELSE <<>>
    /\ pc' = "ret"
    /\ UNCHANGED <<call, orchVars>>

NextScores == ScoredPairReturns

SpecScores == InitScores /\ [][NextScores]_vars

\* C25: every reported duplicate pair is typed by the first matching rule,
\* all comparisons strict: 'exact' if overall > 0.95, otherwise 'semantic' if
\* semantic > 0.8, otherwise 'textual' if tfidf > 0.8, otherwise 'partial'.
C25_TypedByFirstMatchingRule ==
    pc = "ret" =>
        \A i \in 1..Len(ret) :
            LET m == ret[i].similarity_metrics
                exact == 100 * m.overall > 95 * Scale
                semantic == 10 * m.semantic > 8 * Scale
                textual == 10 * m.tfidf > 8 * Scale
            IN /\ ret[i].duplicate_type = "exact" <=> exact
               /\ ret[i].duplicate_type = "semantic" <=> (~exact /\ semantic)
               /\ ret[i].duplicate_type = "textual" <=> (~exact /\ ~semantic /\ textual)
               /\ ret[i].duplicate_type = "partial" <=> (~exact /\ ~semantic /\ ~textual)

\* a pair reported at the default threshold with overall exactly 0.95: not
\* 'exact' but 'semantic'
C25_Witness ==
    /\ pc = "ret"
    /\ call.config = DefaultConfig
    /\ Len(ret) = 1
    /\ 100 * ret[1].similarity_metrics.overall = 95 * Scale
    /\ ret[1].duplicate_type = "semantic"

\* C30: with the default duplicate_threshold 0.85 and sub-scores in [0,1], no
\* reported pair has duplicate_type 'partial': an overall score above 0.85
\* needs overall > 0.95, semantic > 0.8 or tfidf > 0.8.
C30_NoPartialAtDefaultThreshold ==
    pc = "ret" /\ call.config.duplicate_threshold = DuplicateThreshold =>
        \A i \in 1..Len(ret) :
            /\ ret[i].duplicate_type # "partial"
            /\ \/ 100 * ret[i].similarity_metrics.overall > 95 * Scale
               \/ 10 * ret[i].similarity_metrics.semantic > 8 * Scale
               \/ 10 * ret[i].similarity_metrics.tfidf > 8 * Scale

\* a pair reported at the default threshold whose semantic score is exactly
\* 0.8: it is 'textual'
C30_Witness ==
    /\ pc = "ret"
    /\ call.config.duplicate_threshold = DuplicateThreshold
    /\ Len(ret) = 1
    /\ 10 * call.semantic = 8 * Scale
    /\ ret[1].duplicate_type = "textual"

\* the highest overall score of a pair that no rule but 'partial' would take,
\* 0.84 for sub-scores 0.8, 0.8 and 1.0, is below the default threshold
BestPartialPairIsNotReported ==
    /\ pc = "ret"
    /\ 10 * call.tfidf <= 8 * Scale
    /\ 10 * call.semantic <= 8 * Scale
    => /\ 100 * WeightedOverall(call.tfidf, call.semantic, call.lexical) <= 84 * Scale
       /\ call.config.duplicate_threshold = DuplicateThreshold => ret = <<>>

(***************************************************************************)
(* Specification SpecTie: the peak hours of a list of posts and of the     *)
(* same posts supplied in another order                                    *)
(***************************************************************************)
\* 09:00, 10:00, 10:01 and 11:00
TieTimes == {540, 600, 601, 660}

\* the orders in which the posts of s can be supplied
Reorderings(s) ==
    {[i \in 1..Len(s) |-> s[p[i]]] :
        p \in {q \in [1..Len(s) -> 1..Len(s)] : \A i, j \in 1..Len(s) : q[i] = q[j] => i = j}}

InitTie ==
    /\ pc = "call"
    /\ call \in {[fn |-> "_find_peak_hours", posts |-> ps, reordered |-> qs, top_k |-> k] :
                    ps \in {PostsAt(ts, 0) : ts \in SeqsUpTo(TieTimes, MaxPosts2)},
                    qs \in {PostsAt(ts, 0) : ts \in SeqsUpTo(TieTimes, MaxPosts2)},
                    k \in 1..MaxTopK}
    /\ \E ts \in Reorderings([i \in 1..Len(call.posts) |-> call.posts[i].published_at]) :
          call.reordered = PostsAt(ts, 0)
    /\ ret = NoCall
    /\ OrchIdle

\* _find_peak_hours(_get_hourly_activity(posts)) for the two orders
PeakHoursOfBothOrders ==
    /\ pc = "call"
    /\ call.fn = "_find_peak_hours"
    /\ ret' = [posts |-> [hourly_activity |-> _get_hourly_activity(call.posts).value,
                          peak_hours |-> _find_peak_hours(
                                _get_hourly_activity(call.posts).value, call.top_k)],
               reordered |-> [hourly_activity |-> _get_hourly_activity(call.reordered).value,
                              peak_hours |-> _find_peak_hours(
                                _get_hourly_activity(call.reordered).value, call.top_k)]]
    /\ pc' = "ret"
    /\ UNCHANGED <<call, orchVars>>

NextTie == PeakHoursOfBothOrders

SpecTie == InitTie /\ [][NextTie]_vars

\* C26: peak hours are a deterministic function of the hour-to-count mapping:
\* when several hours have equal counts, the order in which they are returned
\* and which of them make the top_k cut do not depend on the order in which
\* the posts were supplied.
C26_PeakHoursIgnorePostOrder ==
    pc = "ret" =>
        (ActivityVector(ret.posts.hourly_activity) = ActivityVector(ret.reordered.hourly_activity)
            => ret.posts.peak_hours = ret.reordered.peak_hours)

\* the two orders do give the same hour-to-count mapping
ReorderingKeepsCounts ==
    pc = "ret" =>
        ActivityVector(ret.posts.hourly_activity) = ActivityVector(ret.reordered.hourly_activity)

(***************************************************************************)
(* Specification SpecPearson: calculate_time_correlation on posts whose    *)
(* hourly counts are constant on one side, on both or on none              *)
(***************************************************************************)
\* one post in every hour of the day, at one minute past the hour
FlatDay == [h \in 1..24 |-> 60 * (h - 1) + 1]

PearsonTimes == {None, 600, 660}

MaxPearsonPosts == 2

InitPearson ==
    /\ pc = "call"
    /\ call \in {[fn |-> "calculate_time_correlation",
                  posts1 |-> PostsAt(d \o t1, 0), posts2 |-> PostsAt(t2, 100)] :
                    d \in {<<>>, FlatDay},
                    t1 \in SeqsUpTo(PearsonTimes, MaxPearsonPosts),
                    t2 \in SeqsUpTo(PearsonTimes, MaxPearsonPosts)}
    /\ ret = NoCall
    /\ OrchIdle

PearsonReturns ==
    /\ pc = "call"
    /\ call.fn = "calculate_time_correlation"
    /\ \E r \in {calculate_time_correlation(call.posts1, call.posts2)} : ret' = r
    /\ pc' = "ret"
    /\ UNCHANGED <<call, orchVars>>

NextPearson == PearsonReturns

SpecPearson == InitPearson /\ [][NextPearson]_vars

\* the number of posts of ps published in hour h
PostsInHour(ps, h) ==
    Cardinality({i \in 1..Len(ps) :
                    ps[i].published_at # None /\ ps[i].published_at \div 60 = h})

\* every hour of the day has the same number of posts
ConstantCounts(ps) == \A h \in 0..23 : PostsInHour(ps, h) = PostsInHour(ps, 0)

\* C28: when either vector of hourly counts has zero variance (no timestamped
\* post, or the same count in every hour), calculate_time_correlation returns
\* hourly_correlation 0.0 and correlation_p_value 1.0 and does not raise.
C28_UndefinedCorrelationIsZero ==
    pc = "ret" /\ (ConstantCounts(call.posts1) \/ ConstantCounts(call.posts2)) =>
        /\ ~ret.raised
        /\ ret.value.hourly_correlation = 0
        /\ ret.value.correlation_p_value_is_one

\* channel 1 posts once in every hour, channel 2 in two different hours
C28_Witness ==
    /\ pc = "ret"
    /\ Len(call.posts1) = 24
    /\ ConstantCounts(call.posts1)
    /\ PostsInHour(call.posts1, 0) = 1
    /\ ~ConstantCounts(call.posts2)
    /\ Len(call.posts2) = 2
    /\ call.posts2[1].published_at # call.posts2[2].published_at
    /\ ret.value.hourly_correlation = 0
    /\ ret.value.correlation_p_value_is_one

\* a side whose posts all lack a timestamp has zero variance too
UntimedSideIsConstant ==
    /\ pc = "ret"
    /\ call.posts2 # <<>>
    /\ \A j \in 1..Len(call.posts2) : call.posts2[j].published_at = None
    => ConstantCounts(call.posts2) /\ ret.value.hourly_correlation = 0

\* with variance on both sides the coefficient is reported as computed
DefinedCorrelationIsKept ==
    /\ pc = "ret"
    /\ ~ConstantCounts(call.posts1)
    /\ ~ConstantCounts(call.posts2)
    => ~ret.value.correlation_p_value_is_one

(***************************************************************************)
(* Specification SpecUntimed: calculate_time_correlation on two lists of   *)
(* timestamped posts, and on the same lists after a post without           *)
(* published_at has been added to one of them                              *)
(***************************************************************************)
\* 10:00 and 15:00
UntimedTimes == {600, 900}

MaxUntimedPosts == 2

\* a post that has an id and a text but no published_at
UntimedPost == [id |-> 99, text |-> <<"alpha">>, published_at |-> None]

\* s with x inserted after its first k elements
InsertedAfter(s, k, x) == SubSeq(s, 1, k) \o <<x>> \o SubSeq(s, k + 1, Len(s))

InitUntimed ==
    /\ pc = "call"
    /\ call \in {[fn |-> "calculate_time_correlation",
                  posts1 |-> PostsAt(t1, 0), posts2 |-> PostsAt(t2, 100),
                  side |-> s, after |-> k] :
                    t1 \in SeqsUpTo(UntimedTimes, MaxUntimedPosts),
                    t2 \in SeqsUpTo(UntimedTimes, MaxUntimedPosts),
                    s \in 1..2, k \in 0..MaxUntimedPosts}
    /\ call.after <= Len(IF call.side = 1 THEN call.posts1 ELSE call.posts2)
    /\ ret = NoCall
    /\ OrchIdle

\* calculate_time_correlation without and with the added post
UntimedReturns ==
    /\ pc = "call"
    /\ call.fn = "calculate_time_correlation"
    /\ \E without \in {calculate_time_correlation(call.posts1, call.posts2)},
          with \in {calculate_time_correlation(
                        IF call.side = 1
                        THEN InsertedAfter(call.posts1, call.after, UntimedPost)
                        ELSE call.posts1,
                        IF call.side = 2
                        THEN InsertedAfter(call.posts2, call.after, UntimedPost)
                        ELSE call.posts2)} :
            ret' = [raised |-> without.raised \/ with.raised,
                    without |-> without.value, with |-> with.value]
    /\ pc' = "ret"
    /\ UNCHANGED <<call, orchVars>>

NextUntimed == UntimedReturns

SpecUntimed == InitUntimed /\ [][NextUntimed]_vars

\* C29: adding a post without published_at to either channel's posts changes
\* neither synchronized_posts and sync_details nor sequence_analysis.
C29_UntimedPostsAreNeutral ==
    pc = "ret" =>
        /\ ~ret.raised
        /\ ret.with.synchronized_posts = ret.without.synchronized_posts
        /\ ret.with.sync_details = ret.without.sync_details
        /\ ret.with.sequence_analysis = ret.without.sequence_analysis

\* the added post is skipped in the hourly activity: the correlation and the
\* peak hours stay as they were, and nothing is raised
UntimedPostsKeepHourlyActivity ==
    pc = "ret" =>
        /\ ~ret.raised
        /\ ret.with.hourly_correlation = ret.without.hourly_correlation
        /\ ret.with.correlation_p_value_is_one = ret.without.correlation_p_value_is_one
        /\ ret.with.activity_patterns = ret.without.activity_patterns

\* the added post is paired with every post of the other channel at a
\* difference of 0.0 minutes
UntimedPostIsSynchronizedWithAll ==
    pc = "ret" =>
        ret.with.synchronized_posts = ret.without.synchronized_posts
            + Len(IF call.side = 1 THEN call.posts2 ELSE call.posts1)

====
